---- MODULE Spec2Model ----
(***************************************************************************)
(* Verification model of mcp-sequentialthinking-tools: the circuit breaker *)
(* (error-handling.ts), the per-session promise lock of the server         *)
(* (server.ts), the thought DAG (dag.ts) and the step pipeline of the      *)
(* ThoughtProcessor (thought-processor.ts).                                *)
(***************************************************************************)
EXTENDS Integers, Sequences, FiniteSets, TLC

(***************************************************************************)
(* Bounds of the model.                                                    *)
(***************************************************************************)
MaxOps == 5
MaxTime == 3
MaxThreshold == 2
MaxResetTimeout == 2
MaxLockCalls == 4
MaxThoughtNumber == 5
MaxAdds == 4
MaxServerCalls == 3
MaxProcCalls == 3
MaxFaultCalls == 4
MaxHistory == 2
MaxGraphNumber == 3
MaxGraphAdds == 3
MaxGroupCalls == 2
MaxPushes == 1
MaxScored == 3
MaxScorings == 3
MaxDepth == 2
MaxChainLength == 3
MaxCompletions == 2
MaxStoredNumber == 2
MaxSaves == 3
MaxPipelineCalls == 3
MaxMarkNumber == 4
MaxMarkAdds == 3
MaxMarks == 2
MaxFinalCalls == 3      \* processThought calls of the session that finishes its chains
MaxBranchCalls == 4     \* processThought calls of the session that opens branches
MaxConfidenceCalls == 2 \* calculateConfidence calls made directly on the manager
MaxClears == 1          \* clearHistory calls

VARIABLES
    breaker,      \* CircuitBreaker fields: state, failureCount, successCount, nextAttempt
    config,       \* CircuitBreakerConfig: failureThreshold, resetTimeoutMs, halfOpenSuccessThreshold
    now,          \* Date.now()
    ops,          \* operations handed to execute(): id -> position of that execute call
    cbLog,        \* observations of the breaker's callers (counters of outcomes)
    sessionLocks, \* ToolAwareSequentialThinkingServer.sessionLocks: session id -> tracker (0: no entry)
    lockCalls,    \* the withSessionLock calls made so far, in submission order
    dag,          \* ThoughtDAG: nodes (the Map's entries) and order (the Map's key order)
    groupsResult, \* what getParallelGroups() returned, if called since the graph last changed
    dagLog,       \* the addThought calls made so far
    proc,         \* the ThoughtProcessor and its collaborators
    procConfig,   \* the server's configuration
    btLog,        \* the shouldBacktrack calls made directly on the manager, with their decisions
    chainLog,     \* the completeChain calls made directly on the library
    heap,         \* the arrays getParallelGroups returned: reference -> its elements
    groupsReturned, \* the getParallelGroups results since the graph last changed
    executionOrder, \* ThoughtDAG.executionOrder
    sortReturned, \* what topologicalSort() returned, if called since the graph last changed
    db,           \* PersistenceLayer: config.enablePersistence and the tables of the database
    saveLog,      \* the saveThought calls made directly on the layer, with what they returned
    loaded,       \* what getThoughtHistory() returned, if called since the last saveThought
    dagCalls,     \* the mark calls made directly on the graph, with whether each one threw
    clears        \* the clearHistory calls made so far, with the calls that were in flight

cbVars == <<breaker, config, now, ops, cbLog>>
lockVars == <<sessionLocks, lockCalls>>
dagVars == <<dag, groupsResult, dagLog>>
procVars == <<proc, procConfig, btLog, chainLog>>
graphVars == <<heap, groupsReturned, executionOrder, sortReturned, dagCalls>>
storeVars == <<db, saveLog, loaded, clears>>

vars == <<breaker, config, now, ops, cbLog, sessionLocks, lockCalls, dag, groupsResult, dagLog,
          proc, procConfig, btLog, chainLog, heap, groupsReturned, executionOrder,
          sortReturned, db, saveLog, loaded, dagCalls, clears>>

\* what the actions of one component leave alone
notCB == <<lockVars, dagVars, procVars, graphVars, storeVars>>
notLock == <<cbVars, dagVars, procVars, graphVars, storeVars>>
notDag == <<cbVars, lockVars, procVars, graphVars, storeVars>>
notSrv == <<cbVars, dagVars, graphVars, btLog, chainLog, storeVars>>
notGraph == <<cbVars, lockVars, procVars, groupsResult, dagLog, storeVars>>
notStore == <<cbVars, lockVars, dagVars, procVars, graphVars>>

(***************************************************************************)
(* CircuitBreaker (error-handling.ts)                                      *)
(***************************************************************************)
CircuitBreakerConfigs ==
    [failureThreshold : 1..MaxThreshold,
     resetTimeoutMs : 0..MaxResetTimeout,
     halfOpenSuccessThreshold : 1..MaxThreshold]

\* field initialisers of the class: closed, both counters 0, nextAttempt = Date.now()
NewCircuitBreaker(t) ==
    [state |-> "closed", failureCount |-> 0, successCount |-> 0, nextAttempt |-> t]

\* an opening that keeps the failure counter
transitionToOpenKeepsCount(b, cfg, t) ==
    [state |-> "open", failureCount |-> b.failureCount, successCount |-> 0,
     nextAttempt |-> t + cfg.resetTimeoutMs]

transitionToOpen(b, cfg, t) ==
    [state |-> "open", failureCount |-> 0, successCount |-> 0,
     nextAttempt |-> t + cfg.resetTimeoutMs]

transitionToHalfOpen(b) ==
    [b EXCEPT !.state = "half-open", !.successCount = 0]

transitionToClosed(b) ==
    [b EXCEPT !.state = "closed", !.failureCount = 0, !.successCount = 0]

\* execute(): the first test, which throws CircuitBreakerOpenError
executeRejectsNever(b, t) == FALSE

executeRejects(b, t) == b.state = "open" /\ t < b.nextAttempt

\* execute(): the breaker as it is when the operation is invoked
executeEnter(b) == IF b.state = "open" THEN transitionToHalfOpen(b) ELSE b

\* execute(): the code after `await operation()` returned
executeSuccess(b, cfg) ==
    LET b1 == [b EXCEPT !.successCount = @ + 1]
    IN  IF b1.state = "half-open" /\ b1.successCount >= cfg.halfOpenSuccessThreshold
        THEN transitionToClosed(b1)
        ELSE b1

\* execute(): the catch block
executeFailure(b, cfg, t) ==
    LET b1 == [b EXCEPT !.failureCount = @ + 1]
    IN  IF b1.failureCount >= cfg.failureThreshold
        THEN transitionToOpen(b1, cfg, t)
        ELSE b1

(***************************************************************************)
(* A breaker used by concurrent callers.  ops[i] is the i-th execute call  *)
(* whose operation was invoked: "pending" until its promise settles.       *)
(* cbLog counts what the callers saw; probe is the pending operation that  *)
(* moved the breaker from open to half-open (0 when none), consec the      *)
(* number of successes since the breaker became half-open with no failure  *)
(* after them.                                                             *)
(***************************************************************************)
CBStart ==
    /\ config \in CircuitBreakerConfigs
    /\ now = 0
    /\ breaker = NewCircuitBreaker(0)
    /\ ops = <<>>
    /\ cbLog = [invoked |-> 0, rejected |-> 0, succeeded |-> 0, failed |-> 0,
                probe |-> 0, consec |-> 0, last |-> "none"]

Calls == cbLog.invoked + cbLog.rejected

\* execute() called while the breaker rejects: CircuitBreakerOpenError
ExecuteRejected ==
    /\ Calls < MaxOps
    /\ executeRejects(breaker, now)
    /\ cbLog' = [cbLog EXCEPT !.rejected = @ + 1, !.last = "rejected"]
    /\ UNCHANGED <<breaker, config, now, ops>>
    /\ UNCHANGED notCB

\* execute() called while the breaker lets the call through: operation() is invoked
ExecuteInvoke ==
    /\ Calls < MaxOps
    /\ ~executeRejects(breaker, now)
    /\ breaker' = executeEnter(breaker)
    /\ ops' = Append(ops, "pending")
    /\ cbLog' = [cbLog EXCEPT !.invoked = @ + 1,
                              !.probe = IF breaker.state = "open" THEN Len(ops) + 1 ELSE @,
                              !.consec = IF breaker.state = "open" THEN 0 ELSE @,
                              !.last = "invoked"]
    /\ UNCHANGED <<config, now>>
    /\ UNCHANGED notCB

\* the operation of call i fulfils
SettleSuccess(i) ==
    /\ ops[i] = "pending"
    /\ ops' = [ops EXCEPT ![i] = "fulfilled"]
    /\ breaker' = executeSuccess(breaker, config)
    /\ cbLog' = [cbLog EXCEPT !.succeeded = @ + 1,
                              !.probe = IF @ = i THEN 0 ELSE @,
                              !.consec = @ + 1,
                              !.last = "success"]
    /\ UNCHANGED <<config, now>>
    /\ UNCHANGED notCB

\* the operation of call i rejects
SettleFailure(i) ==
    /\ ops[i] = "pending"
    /\ ops' = [ops EXCEPT ![i] = "rejected"]
    /\ breaker' = executeFailure(breaker, config, now)
    /\ cbLog' = [cbLog EXCEPT !.failed = @ + 1,
                              !.probe = IF @ = i THEN 0 ELSE @,
                              !.consec = 0,
                              !.last = "failure"]
    /\ UNCHANGED <<config, now>>
    /\ UNCHANGED notCB

\* the clock advances
Tick ==
    /\ now < MaxTime
    /\ now' = now + 1
    /\ UNCHANGED <<breaker, config, ops, cbLog>>
    /\ UNCHANGED notCB

CBNext ==
    \/ ExecuteRejected
    \/ ExecuteInvoke
    \/ \E i \in DOMAIN ops : SettleSuccess(i)
    \/ \E i \in DOMAIN ops : SettleFailure(i)
    \/ Tick


(***************************************************************************)
(* ToolAwareSequentialThinkingServer.withSessionLock (server.ts)           *)
(*                                                                         *)
(* A call k is the record of one withSessionLock(sessionId, fn):           *)
(*   prev     the tracker it chained on, sessionLocks.get(sessionId), or 0 *)
(*            for Promise.resolve();                                       *)
(*   run      the promise previous.then(fn): "waiting" until the reaction  *)
(*            job runs, "running" while fn's promise is pending, then      *)
(*            "fulfilled" or "rejected" (trackedRun settles the same way); *)
(*   tracker  the promise trackedRun.finally(...);                         *)
(*   invoked  how many times fn was invoked.                               *)
(***************************************************************************)
Sessions == {"s1", "s2"}

Settled == {"fulfilled", "rejected"}

LockStart ==
    /\ sessionLocks = [s \in Sessions |-> 0]
    /\ lockCalls = <<>>

\* the state of the promise `previous` of a call
previousState(calls, k) ==
    IF calls[k].prev = 0 THEN "fulfilled" ELSE calls[calls[k].prev].tracker

\* previous.then(fn): what the reaction job of `run` does
previousThenUnchained(st) == "invoke"

previousThen(st) ==
    CASE st = "fulfilled" -> "invoke"
      [] st = "rejected" -> "propagate"
      [] OTHER -> "wait"

\* the synchronous body of withSessionLock
withSessionLock(s) ==
    /\ Len(lockCalls) < MaxLockCalls
    /\ lockCalls' = Append(lockCalls,
            [session |-> s, prev |-> sessionLocks[s], run |-> "waiting",
             tracker |-> "pending", invoked |-> 0])
    /\ sessionLocks' = [sessionLocks EXCEPT ![s] = Len(lockCalls) + 1]
    /\ UNCHANGED notLock

\* previous fulfilled: fn is invoked
RunFn(k) ==
    /\ lockCalls[k].run = "waiting"
    /\ previousThen(previousState(lockCalls, k)) = "invoke"
    /\ lockCalls' = [lockCalls EXCEPT ![k].run = "running", ![k].invoked = @ + 1]
    /\ UNCHANGED sessionLocks
    /\ UNCHANGED notLock

\* previous rejected: then() has no rejection handler, run rejects with that error
RunPropagates(k) ==
    /\ lockCalls[k].run = "waiting"
    /\ previousThen(previousState(lockCalls, k)) = "propagate"
    /\ lockCalls' = [lockCalls EXCEPT ![k].run = "rejected"]
    /\ UNCHANGED sessionLocks
    /\ UNCHANGED notLock

\* the promise returned by fn settles
FnSettles(k, outcome) ==
    /\ lockCalls[k].run = "running"
    /\ lockCalls' = [lockCalls EXCEPT ![k].run = outcome]
    /\ UNCHANGED sessionLocks
    /\ UNCHANGED notLock

\* the finally() callback of the tracker, after trackedRun settled
trackerFinallyKeep(locks, calls, k) == locks

\* a callback that deletes the entry whoever holds it
trackerFinallyAlways(locks, calls, k) == [locks EXCEPT ![calls[k].session] = 0]

trackerFinally(locks, calls, k) ==
    IF locks[calls[k].session] = k THEN [locks EXCEPT ![calls[k].session] = 0] ELSE locks

TrackerSettles(k) ==
    /\ lockCalls[k].run \in Settled
    /\ lockCalls[k].tracker = "pending"
    /\ sessionLocks' = trackerFinally(sessionLocks, lockCalls, k)
    /\ lockCalls' = [lockCalls EXCEPT ![k].tracker = lockCalls[k].run]
    /\ UNCHANGED notLock

LockNext ==
    \/ \E s \in Sessions : withSessionLock(s)
    \/ \E k \in DOMAIN lockCalls : RunFn(k)
    \/ \E k \in DOMAIN lockCalls : RunPropagates(k)
    \/ \E k \in DOMAIN lockCalls : FnSettles(k, "fulfilled")
    \/ \E k \in DOMAIN lockCalls : FnSettles(k, "rejected")
    \/ \E k \in DOMAIN lockCalls : TrackerSettles(k)



(***************************************************************************)
(* ThoughtDAG (dag.ts)                                                     *)
(*                                                                         *)
(* A thought is a record; an optional number that is absent is 0 (the code *)
(* tests these fields for truthiness).  A node is the DAGNode record       *)
(* without the thought text.                                               *)
(***************************************************************************)
Max(a, b) == IF a >= b THEN a ELSE b

EmptyDag == [nodes |-> [n \in {} |-> 0], order |-> <<>>]

\* addThought: the dependencies inferred from the thought's metadata
inferDependencies(t) ==
    IF t.revises_thought # 0 THEN <<t.revises_thought>>
    ELSE IF t.branch_from_thought # 0 THEN <<t.branch_from_thought>>
    ELSE IF t.thought_number > 1 THEN <<t.thought_number - 1>>
    ELSE <<>>

\* addThought: this.nodes.get(dep)?.level ?? 0, then 1 + the maximum, or 0
nodeLevelOfParent(d, deps) ==
    IF deps = <<>> THEN 0
    ELSE Max(0, IF deps[1] \in DOMAIN d.nodes THEN d.nodes[deps[1]].level ELSE 0)

nodeLevel(d, deps) ==
    IF deps = <<>> THEN 0
    ELSE Max(0, IF deps[1] \in DOMAIN d.nodes THEN d.nodes[deps[1]].level ELSE 0) + 1

addThought(d, t) ==
    LET tn == t.thought_number
        deps == inferDependencies(t)
        node == [thoughtNumber |-> tn, dependencies |-> deps, children |-> <<>>,
                 level |-> nodeLevel(d, deps),
                 status |-> IF deps = <<>> THEN "ready" ELSE "pending"]
        set == [n \in DOMAIN d.nodes \cup {tn} |-> IF n = tn THEN node ELSE d.nodes[n]]
        wired == IF deps # <<>> /\ deps[1] \in DOMAIN set
                 THEN [set EXCEPT ![deps[1]].children = Append(@, tn)]
                 ELSE set
    IN  [nodes |-> wired,
         order |-> IF tn \in DOMAIN d.nodes THEN d.order ELSE Append(d.order, tn)]

markExecuting(d, n) ==
    IF n \in DOMAIN d.nodes THEN [d EXCEPT !.nodes[n].status = "executing"] ELSE d

\* every(dep => nodes.get(dep)?.status === 'completed')
allDepsCompleted(nodes, c) ==
    \A i \in DOMAIN nodes[c].dependencies :
        LET dep == nodes[c].dependencies[i]
        IN  dep \in DOMAIN nodes /\ nodes[dep].status = "completed"

markCompleted(d, n) ==
    IF n \notin DOMAIN d.nodes THEN d
    ELSE LET done == [d.nodes EXCEPT ![n].status = "completed"]
             kids == {done[n].children[i] : i \in DOMAIN done[n].children}
         IN  [d EXCEPT !.nodes =
                [c \in DOMAIN done |->
                    IF c \in kids /\ done[c].status = "pending" /\ allDepsCompleted(done, c)
                    THEN [done[c] EXCEPT !.status = "ready"]
                    ELSE done[c]]]

\* propagateFailure: the children in order, depth first.  st is the nodes and
\* whether the recursion ran away: a child that is not completed and whose own
\* call is still on the stack is failed and visited again without end, until
\* the call stack is exhausted (RangeError)
RECURSIVE propagateFailure(_, _, _), propagateToChildren(_, _, _)
propagateFailure(st, n, stack) ==
    propagateToChildren(st, st.nodes[n].children, stack \cup {n})

propagateToChildren(st, kids, stack) ==
    IF kids = <<>> \/ st.overflow THEN st
    ELSE LET c == Head(kids)
         IN  IF c \notin DOMAIN st.nodes \/ st.nodes[c].status = "completed"
             THEN propagateToChildren(st, Tail(kids), stack)
             ELSE LET failed == [st EXCEPT !.nodes[c].status = "failed"]
                  IN  IF c \in stack THEN [failed EXCEPT !.overflow = TRUE]
                      ELSE propagateToChildren(propagateFailure(failed, c, stack),
                                               Tail(kids), stack)

\* markFailed: the graph after the call and whether the call threw
markFailed(d, n) ==
    IF n \notin DOMAIN d.nodes THEN [dag |-> d, threw |-> FALSE]
    ELSE LET st == propagateFailure([nodes |-> [d.nodes EXCEPT ![n].status = "failed"],
                                     overflow |-> FALSE], n, {})
         IN  [dag |-> [d EXCEPT !.nodes = st.nodes], threw |-> st.overflow]

\* the elements of a finite set of numbers, ascending: sort((a, b) => a - b)
RECURSIVE Ascending(_)
Ascending(S) ==
    IF S = {} THEN <<>>
    ELSE LET m == CHOOSE x \in S : \A y \in S : x <= y
         IN  <<m>> \o Ascending(S \ {m})

\* a getParallelGroups that also lists, at level 0, the dependencies that were
\* never added
getParallelGroupsWithParents(d) ==
    LET missing == {dep \in UNION {{d.nodes[n].dependencies[i] :
                                        i \in DOMAIN d.nodes[n].dependencies} :
                                   n \in DOMAIN d.nodes} : dep \notin DOMAIN d.nodes}
        levels == Ascending({d.nodes[n].level : n \in DOMAIN d.nodes}
                            \cup (IF missing = {} THEN {} ELSE {0}))
        InLevel(l) == LET Is(n) == d.nodes[n].level = l
                      IN  SelectSeq(d.order, Is) \o (IF l = 0 THEN Ascending(missing) ELSE <<>>)
    IN  [i \in DOMAIN levels |-> InLevel(levels[i])]

\* getParallelGroups: the nodes bucketed by their stored level, levels ascending,
\* each bucket in the Map's iteration order
getParallelGroups(d) ==
    LET levels == Ascending({d.nodes[n].level : n \in DOMAIN d.nodes})
        InLevel(l) == LET Is(n) == d.nodes[n].level = l IN SelectSeq(d.order, Is)
    IN  [i \in DOMAIN levels |-> InLevel(levels[i])]

(***************************************************************************)
(* A ThoughtDAG built through addThought.  dagLog.steps lists the steps    *)
(* added so far, each with the dependency the specification gives it.  The *)
(* steps are added in dependency order: each carries a step number not     *)
(* added before and its inferred dependency, if it has one, is registered  *)
(* already.                                                                *)
(***************************************************************************)
\* the dependency of a step as the specification states it (0: none)
ClaimedDependency(t) ==
    IF t.revises_thought # 0 THEN t.revises_thought
    ELSE IF t.branch_from_thought # 0 THEN t.branch_from_thought
    ELSE IF t.thought_number > 1 THEN t.thought_number - 1
    ELSE 0

DagThoughts ==
    [thought_number : 1..MaxThoughtNumber,
     revises_thought : 0..MaxThoughtNumber,
     branch_from_thought : 0..MaxThoughtNumber]

NoGroups == [returned |-> FALSE, groups |-> <<>>]

NotSorted == [called |-> FALSE, order |-> <<>>]

DagStart ==
    /\ dag = EmptyDag
    /\ groupsResult = NoGroups
    /\ dagLog = [steps |-> <<>>]
    /\ heap = <<>>
    /\ groupsReturned = <<>>
    /\ executionOrder = <<>>
    /\ sortReturned = NotSorted
    /\ dagCalls = <<>>

InDependencyOrder(d, t) ==
    /\ t.thought_number \notin DOMAIN d.nodes
    /\ \A i \in DOMAIN inferDependencies(t) : inferDependencies(t)[i] \in DOMAIN d.nodes

AddThought(t) ==
    /\ Len(dagLog.steps) < MaxAdds
    /\ dag' = addThought(dag, t)
    /\ groupsResult' = NoGroups
    /\ dagLog' = [steps |-> Append(dagLog.steps,
                    [thought_number |-> t.thought_number, dependency |-> ClaimedDependency(t)])]
    /\ UNCHANGED notDag

GetParallelGroups ==
    /\ ~groupsResult.returned
    /\ groupsResult' = [returned |-> TRUE, groups |-> getParallelGroups(dag)]
    /\ UNCHANGED <<dag, dagLog>>
    /\ UNCHANGED notDag

DagNext ==
    \/ \E t \in DagThoughts : InDependencyOrder(dag, t) /\ AddThought(t)
    \/ GetParallelGroups

(***************************************************************************)
(* A ThoughtDAG used freely: any step may be added, re-added or added      *)
(* before its dependency, and the callers keep and mutate the arrays that  *)
(* getParallelGroups returns.  heap[r] holds the elements of array r: for  *)
(* the outer array of a result the references of its groups, for a group   *)
(* its step numbers.  groupsReturned lists, for every call since the graph *)
(* last changed, the outer array it returned and the value that array had  *)
(* when it was returned.                                                   *)
(***************************************************************************)
RECURSIVE AllocateAll(_, _)
AllocateAll(h, arrays) ==
    IF arrays = <<>> THEN h ELSE AllocateAll(Append(h, arrays[1]), Tail(arrays))

\* a getParallelGroups that hands out the arrays of the first result again
newGroupsArraysShared(h, returned, groups) ==
    IF returned # <<>> THEN [heap |-> h, ref |-> returned[1].ref]
    ELSE LET inner == AllocateAll(h, groups)
         IN  [heap |-> Append(inner, [i \in DOMAIN groups |-> Len(h) + i]),
              ref |-> Len(inner) + 1]

\* getParallelGroups: one new array per level and a new result array
newGroupsArrays(h, returned, groups) ==
    LET inner == AllocateAll(h, groups)
    IN  [heap |-> Append(inner, [i \in DOMAIN groups |-> Len(h) + i]),
         ref |-> Len(inner) + 1]

\* the number[][] an outer array stands for
Deref(h, ref) == [i \in DOMAIN h[ref] |-> h[h[ref][i]]]

\* topologicalSort: visit() and its loop over the dependencies; st is the
\* sorted list, the visited and visiting sets and whether no cycle was met
RECURSIVE visit(_, _, _), visitAll(_, _, _)
visit(d, st, n) ==
    IF n \in st.visited THEN st
    ELSE IF n \in st.visiting THEN [st EXCEPT !.ok = FALSE]
    ELSE LET st1 == [st EXCEPT !.visiting = @ \cup {n}]
             st2 == IF n \in DOMAIN d.nodes
                    THEN visitAll(d, st1, d.nodes[n].dependencies)
                    ELSE st1
         IN  IF ~st2.ok THEN st2
             ELSE [st2 EXCEPT !.visiting = @ \ {n}, !.visited = @ \cup {n},
                              !.sorted = Append(@, n)]

visitAll(d, st, deps) ==
    IF deps = <<>> \/ ~st.ok THEN st
    ELSE visitAll(d, visit(d, st, deps[1]), Tail(deps))

\* topologicalSort: what it returns and executionOrder after it
topologicalSort(d, order) ==
    LET st == visitAll(d, [sorted |-> <<>>, visited |-> {}, visiting |-> {}, ok |-> TRUE],
                       d.order)
    IN  IF st.ok THEN [returned |-> st.sorted, executionOrder |-> st.sorted]
        ELSE [returned |-> <<>>, executionOrder |-> order]

GraphThoughts ==
    [thought_number : 1..MaxGraphNumber,
     revises_thought : 0..MaxGraphNumber,
     branch_from_thought : 0..MaxGraphNumber]

AddAnyThought(t) ==
    /\ Len(dagLog.steps) < MaxGraphAdds
    /\ dag' = addThought(dag, t)
    /\ dagLog' = [steps |-> Append(dagLog.steps,
                    [thought_number |-> t.thought_number, dependency |-> ClaimedDependency(t)])]
    /\ heap' = <<>>
    /\ groupsReturned' = <<>>
    /\ sortReturned' = NotSorted
    /\ UNCHANGED <<groupsResult, executionOrder, dagCalls>>
    /\ UNCHANGED <<cbVars, lockVars, procVars, storeVars>>

CallGetParallelGroups ==
    /\ Len(groupsReturned) < MaxGroupCalls
    /\ LET r == newGroupsArrays(heap, groupsReturned, getParallelGroups(dag))
       IN  /\ heap' = r.heap
           /\ groupsReturned' = Append(groupsReturned,
                    [ref |-> r.ref, value |-> Deref(r.heap, r.ref)])
    /\ UNCHANGED <<dag, executionOrder, sortReturned, dagCalls>>
    /\ UNCHANGED notGraph

\* a caller pushes a number onto group g of the k-th result
PushOntoGroup(k, g) ==
    /\ k \in DOMAIN groupsReturned
    /\ g \in DOMAIN heap[groupsReturned[k].ref]
    /\ Cardinality({r \in DOMAIN heap : \E i \in DOMAIN heap[r] : heap[r][i] = 9999})
            < MaxPushes
    /\ heap' = [heap EXCEPT ![heap[groupsReturned[k].ref][g]] = Append(@, 9999)]
    /\ UNCHANGED <<dag, groupsReturned, executionOrder, sortReturned, dagCalls>>
    /\ UNCHANGED notGraph

CallTopologicalSort ==
    /\ ~sortReturned.called
    /\ LET r == topologicalSort(dag, executionOrder)
       IN  /\ sortReturned' = [called |-> TRUE, order |-> r.returned]
           /\ executionOrder' = r.executionOrder
    /\ UNCHANGED <<dag, heap, groupsReturned, dagCalls>>
    /\ UNCHANGED notGraph

GraphNext ==
    \/ \E t \in GraphThoughts : AddAnyThought(t)
    \/ CallGetParallelGroups
    \/ \E k \in 1..MaxGroupCalls, g \in 1..(MaxGraphNumber + 1) : PushOntoGroup(k, g)
    \/ CallTopologicalSort

(***************************************************************************)
(* A ThoughtDAG whose steps are added in any order and then marked:        *)
(* dagCalls lists the mark calls since the graph was last cleared.         *)
(***************************************************************************)
\* steps 1..MaxMarkNumber with their default dependency, and step 1 revising itself
MarkedThoughts ==
    {[thought_number |-> n, revises_thought |-> 0, branch_from_thought |-> 0] :
        n \in 1..MaxMarkNumber}
    \cup {[thought_number |-> 1, revises_thought |-> 1, branch_from_thought |-> 0]}

AddThoughtInAnyOrder(t) ==
    /\ Len(dagLog.steps) < MaxMarkAdds
    /\ dag' = addThought(dag, t)
    /\ dagLog' = [steps |-> Append(dagLog.steps,
                    [thought_number |-> t.thought_number, dependency |-> ClaimedDependency(t)])]
    /\ groupsResult' = NoGroups
    /\ sortReturned' = NotSorted
    /\ UNCHANGED <<heap, groupsReturned, executionOrder, dagCalls>>
    /\ UNCHANGED <<cbVars, lockVars, procVars, storeVars>>

\* the frame of a mark call that results in graph g
Marked(op, n, g, threw) ==
    /\ Len(dagCalls) < MaxMarks
    /\ n \in DOMAIN dag.nodes
    /\ dag' = g
    /\ dagCalls' = Append(dagCalls, [op |-> op, n |-> n, threw |-> threw])
    /\ groupsResult' = NoGroups
    /\ sortReturned' = NotSorted
    /\ UNCHANGED <<dagLog, heap, groupsReturned, executionOrder>>
    /\ UNCHANGED <<cbVars, lockVars, procVars, storeVars>>

MarkExecuting(n) == Marked("markExecuting", n, markExecuting(dag, n), FALSE)

MarkCompleted(n) == Marked("markCompleted", n, markCompleted(dag, n), FALSE)

MarkFailed(n) ==
    \E r \in {markFailed(dag, n)} : Marked("markFailed", n, r.dag, r.threw)

\* clear()
ClearGraph ==
    /\ dag # EmptyDag
    /\ dag' = EmptyDag
    /\ executionOrder' = <<>>
    /\ dagLog' = [steps |-> <<>>]
    /\ dagCalls' = <<>>
    /\ groupsResult' = NoGroups
    /\ sortReturned' = NotSorted
    /\ UNCHANGED <<heap, groupsReturned>>
    /\ UNCHANGED <<cbVars, lockVars, procVars, storeVars>>

MarksNext ==
    \/ \E t \in MarkedThoughts : AddThoughtInAnyOrder(t)
    \/ \E n \in 1..MaxMarkNumber : MarkExecuting(n)
    \/ \E n \in 1..MaxMarkNumber : MarkCompleted(n)
    \/ \E n \in 1..MaxMarkNumber : MarkFailed(n)
    \/ GetParallelGroups
    \/ CallTopologicalSort
    \/ ClearGraph

(***************************************************************************)
(* BacktrackingManager (backtracking.ts).  A confidence is a number of     *)
(* thousandths (0.3 is 300); a confidence that is absent is Undefined.     *)
(* A thought carries the tools of its current_step as a sequence of        *)
(* [tool_name, confidence] records, empty when it has no current_step.     *)
(***************************************************************************)
Undefined == -1

Min(a, b) == IF a <= b THEN a ELSE b

RECURSIVE SumConfidence(_)
SumConfidence(tools) ==
    IF tools = <<>> THEN 0 ELSE tools[1].confidence + SumConfidence(Tail(tools))

calculateConfidence(t) ==
    LET c0 == 500
        c1 == IF t.tools # <<>>
              THEN c0 + ((SumConfidence(t.tools) \div Len(t.tools)) * 3) \div 10
              ELSE c0
        c2 == IF t.is_revision THEN c1 - 100 ELSE c1
        c3 == IF t.branch_from_thought # 0 THEN c2 + 50 ELSE c2
        c4 == IF /\ t.thought_number # 0 /\ t.total_thoughts # 0
                 /\ ~t.next_thought_needed
                 /\ t.thought_number * 10 > t.total_thoughts * 8
              THEN c3 + 200 ELSE c3
    IN  Max(0, Min(1000, c4))

\* a search that always answers the start of its range
findBacktrackPointFloor(map, cfg, n) == Max(1, n - cfg.maxBacktrackDepth)

\* the first thought at or above minConfidence looking back from n - 1, else
\* the start of the search range
findBacktrackPoint(map, cfg, n) ==
    LET startThought == Max(1, n - cfg.maxBacktrackDepth)
        good == {i \in startThought..(n - 1) : i \in DOMAIN map /\ map[i] >= cfg.minConfidence}
    IN  IF good # {} THEN CHOOSE i \in good : \A j \in good : j <= i ELSE startThought

\* the reason of a decision: its text and the numbers the text embeds.  A
\* decision without a reason property reads as NoReason.
NoReason == [text |-> "undefined", confidence |-> Undefined, threshold |-> Undefined]

AutoBacktrackDisabled ==
    [text |-> "Low confidence detected but auto-backtrack disabled",
     confidence |-> Undefined, threshold |-> Undefined]

\* `Confidence ${confidence.toFixed(2)} below threshold ${minConfidence}`: the
\* confidence is embedded in hundredths
belowThreshold(c, minConfidence) ==
    [text |-> "Confidence below threshold", confidence |-> (c + 5) \div 10,
     threshold |-> minConfidence]

\* a decision that never asks to backtrack
shouldBacktrackNever(bm, cfg, t) ==
    [thoughtConfidenceMap |-> bm.thoughtConfidenceMap,
     backtrackHistory |-> bm.backtrackHistory,
     shouldBacktrack |-> FALSE, backtrackTo |-> 0, reason |-> NoReason]

\* shouldBacktrack: the manager's fields after the call and the decision
shouldBacktrack(bm, cfg, t) ==
    IF t.confidence = Undefined
    THEN [thoughtConfidenceMap |-> bm.thoughtConfidenceMap,
          backtrackHistory |-> bm.backtrackHistory,
          shouldBacktrack |-> FALSE, backtrackTo |-> 0, reason |-> NoReason]
    ELSE LET map == [n \in DOMAIN bm.thoughtConfidenceMap \cup {t.thought_number} |->
                        IF n = t.thought_number THEN t.confidence
                        ELSE bm.thoughtConfidenceMap[n]]
             low == t.confidence < cfg.minConfidence
             point == findBacktrackPoint(map, cfg, t.thought_number)
         IN  IF low /\ cfg.enableAutoBacktrack
             THEN [thoughtConfidenceMap |-> map,
                   backtrackHistory |-> Append(bm.backtrackHistory,
                        [thoughtNumber |-> t.thought_number, confidence |-> t.confidence]),
                   shouldBacktrack |-> TRUE, backtrackTo |-> point,
                   reason |-> belowThreshold(t.confidence, cfg.minConfidence)]
             ELSE IF low
             THEN [thoughtConfidenceMap |-> map,
                   backtrackHistory |-> bm.backtrackHistory,
                   shouldBacktrack |-> FALSE, backtrackTo |-> 0, reason |-> AutoBacktrackDisabled]
             ELSE [thoughtConfidenceMap |-> map,
                   backtrackHistory |-> bm.backtrackHistory,
                   shouldBacktrack |-> FALSE, backtrackTo |-> 0, reason |-> NoReason]

(***************************************************************************)
(* ToolChainLibrary (tool-chains.ts).  chains maps a tool sequence to its  *)
(* ToolChain record.                                                       *)
(***************************************************************************)
RECURSIVE ToolNames(_)
ToolNames(tools) ==
    IF tools = <<>> THEN <<>> ELSE <<tools[1].tool_name>> \o ToolNames(Tail(tools))

\* recordStep's loop of recordToolUse calls
recordToolUse(lib, names) == [lib EXCEPT !.currentChain = @ \o names]

\* the text of a tool name, cut at every "->" it contains; the names of the
\* model are "a", "b", "c" and "a->b"
ToolNameText(name) == IF name = "a->b" THEN <<"a", "->", "b">> ELSE <<name>>

\* a key that tells every sequence apart
getChainKeyExact(sequence) == sequence

\* getChainKey: sequence.join('->'), as the text it yields
RECURSIVE getChainKey(_)
getChainKey(sequence) ==
    IF sequence = <<>> THEN <<>>
    ELSE IF Len(sequence) = 1 THEN ToolNameText(sequence[1])
    ELSE ToolNameText(sequence[1]) \o <<"->">> \o getChainKey(Tail(sequence))

\* a completion that also records an accumulator of one tool
completeChainOfAnyLength(lib, success, confidence) ==
    IF Len(lib.currentChain) < 1 THEN [lib EXCEPT !.currentChain = <<>>]
    ELSE LET key == getChainKey(lib.currentChain)
         IN  IF key \notin DOMAIN lib.chains
             THEN [currentChain |-> <<>>,
                   chainIdCounter |-> lib.chainIdCounter + 1,
                   chains |-> [k \in DOMAIN lib.chains \cup {key} |->
                        IF k = key
                        THEN [id |-> lib.chainIdCounter + 1,
                              sequence |-> lib.currentChain,
                              successCount |-> IF success THEN 1 ELSE 0,
                              totalUses |-> 1,
                              averageConfidence |->
                                   IF confidence = Undefined \/ confidence = 0
                                   THEN 500 ELSE confidence]
                        ELSE lib.chains[k]]]
             ELSE [currentChain |-> <<>>,
                   chainIdCounter |-> lib.chainIdCounter,
                   chains |-> [lib.chains EXCEPT ![key] =
                        [id |-> @.id,
                         sequence |-> @.sequence,
                         successCount |-> IF success THEN @.successCount + 1 ELSE @.successCount,
                         totalUses |-> @.totalUses + 1,
                         averageConfidence |->
                              IF confidence = Undefined THEN @.averageConfidence
                              ELSE (@.averageConfidence * 7 + confidence * 3) \div 10]]]

completeChain(lib, success, confidence) ==
    IF Len(lib.currentChain) < 2 THEN [lib EXCEPT !.currentChain = <<>>]
    ELSE LET key == getChainKey(lib.currentChain)
         IN  IF key \notin DOMAIN lib.chains
             THEN [currentChain |-> <<>>,
                   chainIdCounter |-> lib.chainIdCounter + 1,
                   chains |-> [k \in DOMAIN lib.chains \cup {key} |->
                        IF k = key
                        THEN [id |-> lib.chainIdCounter + 1,
                              sequence |-> lib.currentChain,
                              successCount |-> IF success THEN 1 ELSE 0,
                              totalUses |-> 1,
                              averageConfidence |->
                                   IF confidence = Undefined \/ confidence = 0
                                   THEN 500 ELSE confidence]
                        ELSE lib.chains[k]]]
             ELSE [currentChain |-> <<>>,
                   chainIdCounter |-> lib.chainIdCounter,
                   chains |-> [lib.chains EXCEPT ![key] =
                        [id |-> @.id,
                         sequence |-> @.sequence,
                         successCount |-> IF success THEN @.successCount + 1 ELSE @.successCount,
                         totalUses |-> @.totalUses + 1,
                         averageConfidence |->
                              IF confidence = Undefined THEN @.averageConfidence
                              ELSE (@.averageConfidence * 7 + confidence * 3) \div 10]]]

\* getMatchingPrefixLength
RECURSIVE getMatchingPrefixLength(_, _)
getMatchingPrefixLength(seq1, seq2) ==
    IF seq1 = <<>> \/ seq2 = <<>> \/ seq1[1] # seq2[1] THEN 0
    ELSE 1 + getMatchingPrefixLength(Tail(seq1), Tail(seq2))

\* the chains in the Map's iteration order (the order of their creation)
RECURSIVE ChainsInOrder(_, _)
ChainsInOrder(chains, keys) ==
    IF keys = {} THEN <<>>
    ELSE LET k == CHOOSE x \in keys : \A y \in keys : chains[x].id <= chains[y].id
         IN  <<chains[k]>> \o ChainsInOrder(chains, keys \ {k})

\* a confidence successRate * averageConfidence is the fraction num / den
MoreConfident(x, y) == x.num * y.den > y.num * x.den

\* suggestNextTool: the loop over the chains; found is the suggestions Map in
\* insertion order
RECURSIVE collectSuggestions(_, _, _)
collectSuggestions(chainSeq, previousTools, found) ==
    IF chainSeq = <<>> THEN found
    ELSE LET chain == chainSeq[1]
             matchLength == getMatchingPrefixLength(previousTools, chain.sequence)
         IN  IF matchLength = Len(previousTools) /\ matchLength < Len(chain.sequence)
             THEN LET nextTool == chain.sequence[matchLength + 1]
                      conf == [num |-> chain.successCount * chain.averageConfidence,
                               den |-> chain.totalUses]
                      at == {i \in DOMAIN found : found[i].toolName = nextTool}
                      found1 ==
                        IF at = {}
                        THEN Append(found, [toolName |-> nextTool, num |-> conf.num,
                                            den |-> conf.den])
                        ELSE [i \in DOMAIN found |->
                                IF i \in at /\ MoreConfident(conf, found[i])
                                THEN [toolName |-> nextTool, num |-> conf.num, den |-> conf.den]
                                ELSE found[i]]
                  IN  collectSuggestions(Tail(chainSeq), previousTools, found1)
             ELSE collectSuggestions(Tail(chainSeq), previousTools, found)

\* result.sort((a, b) => b.confidence - a.confidence): stable, descending
RECURSIVE sortByConfidence(_)
sortByConfidence(found) ==
    IF found = <<>> THEN <<>>
    ELSE LET best == CHOOSE i \in DOMAIN found :
                        /\ \A j \in DOMAIN found : ~MoreConfident(found[j], found[i])
                        /\ \A j \in 1..(i - 1) : MoreConfident(found[i], found[j])
             rest == [j \in 1..(Len(found) - 1) |-> IF j < best THEN found[j] ELSE found[j + 1]]
         IN  <<found[best]>> \o sortByConfidence(rest)

suggestNextTool(lib, previousTools) ==
    sortByConfidence(collectSuggestions(ChainsInOrder(lib.chains, DOMAIN lib.chains),
                                        previousTools, <<>>))

\* finalizeCurrentChain delegates to completeChain
finalizeCurrentChain(lib, success, confidence) == completeChain(lib, success, confidence)

(***************************************************************************)
(* ThoughtProcessor (thought-processor.ts) with the collaborators the      *)
(* server hands it.  proc holds the processor's fields and those of its    *)
(* collaborators: the BacktrackingManager, the ToolChainLibrary (lib), the *)
(* ThoughtDAG, the rows of the thoughts table and the two breakers.        *)
(***************************************************************************)
PersistenceBreakerConfig ==
    [failureThreshold |-> 3, resetTimeoutMs |-> 5000, halfOpenSuccessThreshold |-> 1]

DagBreakerConfig ==
    [failureThreshold |-> 3, resetTimeoutMs |-> 2000, halfOpenSuccessThreshold |-> 1]

NewProcessor(t) ==
    [thoughtHistory |-> <<>>,
     branches |-> [b \in {} |-> <<>>],
     branchOrder |-> <<>>,
     thoughtConfidenceMap |-> [n \in {} |-> 0],
     backtrackHistory |-> <<>>,
     lib |-> [currentChain |-> <<>>, chainIdCounter |-> 0, chains |-> [k \in {} |-> 0]],
     dag |-> EmptyDag,
     store |-> <<>>,
     dagBreaker |-> NewCircuitBreaker(t),
     persistenceBreaker |-> NewCircuitBreaker(t)]

prepareThought(input) ==
    LET t1 == IF input.thought_number > input.total_thoughts
              THEN [input EXCEPT !.total_thoughts = input.thought_number]
              ELSE input
    IN  IF t1.confidence = Undefined
        THEN [t1 EXCEPT !.confidence = calculateConfidence(t1)]
        ELSE t1

\* recordStep: what it does to the thought
recordStep(t) ==
    IF t.tools = <<>> THEN t ELSE [t EXCEPT !.previous_steps = Append(@, t.tools)]

getStats(d) ==
    LET Count(st) == Cardinality({n \in DOMAIN d.nodes : d.nodes[n].status = st})
    IN  [total |-> Cardinality(DOMAIN d.nodes), pending |-> Count("pending"),
         ready |-> Count("ready"), executing |-> Count("executing"),
         completed |-> Count("completed"), failed |-> Count("failed")]

NoDagStats ==
    [present |-> FALSE, total |-> 0, pending |-> 0, ready |-> 0, executing |-> 0,
     completed |-> 0, failed |-> 0, parallelGroupCount |-> 0]

\* an update that marks the step without adding it first
updateDAGOperationUnregistered(d, t) ==
    markCompleted(markExecuting(d, t.thought_number), t.thought_number)

\* the operation updateDAG hands to the breaker: the graph after it
updateDAGOperation(d, t) ==
    markCompleted(markExecuting(addThought(d, t), t.thought_number), t.thought_number)

\* ... and the dagStats it computes
dagStatsOf(d) ==
    LET stats == getStats(d)
    IN  [present |-> TRUE, total |-> stats.total, pending |-> stats.pending,
         ready |-> stats.ready, executing |-> stats.executing,
         completed |-> stats.completed, failed |-> stats.failed,
         parallelGroupCount |-> Len(getParallelGroups(d))]

\* what updateDAG returns whatever the operation did
updateDAGResultKept(dagOp, stats) == stats

\* what updateDAG returns: the stats of an operation that fulfilled, undefined
\* when DAG is disabled, the breaker rejected the call or the operation threw
updateDAGResult(dagOp, stats) == IF dagOp = "ok" THEN stats ELSE NoDagStats

\* a history that is never trimmed
enforceHistoryLimitNever(history, cfg) == history

enforceHistoryLimit(history, cfg) ==
    IF Len(history) > cfg.maxHistorySize
    THEN SubSeq(history, Len(history) - cfg.maxHistorySize + 1, Len(history))
    ELSE history

\* an eviction that drops the branch created last
updateBranchesNewest(P, cfg, t) ==
    IF t.branch_from_thought # 0 /\ t.branch_id # ""
    THEN LET known == t.branch_id \in DOMAIN P.branches
             order1 == IF known THEN P.branchOrder ELSE Append(P.branchOrder, t.branch_id)
             map1 == [b \in DOMAIN P.branches \cup {t.branch_id} |->
                        IF b = t.branch_id
                        THEN Append(IF known THEN P.branches[b] ELSE <<>>, t)
                        ELSE P.branches[b]]
         IN  IF Len(order1) > cfg.maxHistorySize
             THEN [branchOrder |-> SubSeq(order1, 1, Len(order1) - 1),
                   branches |-> [b \in DOMAIN map1 \ {order1[Len(order1)]} |-> map1[b]]]
             ELSE [branchOrder |-> order1, branches |-> map1]
    ELSE [branchOrder |-> P.branchOrder, branches |-> P.branches]

\* updateBranches: the branch map and the branch order after it
updateBranches(P, cfg, t) ==
    IF t.branch_from_thought # 0 /\ t.branch_id # ""
    THEN LET known == t.branch_id \in DOMAIN P.branches
             order1 == IF known THEN P.branchOrder ELSE Append(P.branchOrder, t.branch_id)
             map1 == [b \in DOMAIN P.branches \cup {t.branch_id} |->
                        IF b = t.branch_id
                        THEN Append(IF known THEN P.branches[b] ELSE <<>>, t)
                        ELSE P.branches[b]]
         IN  IF Len(order1) > cfg.maxHistorySize
             THEN [branchOrder |-> Tail(order1),
                   branches |-> [b \in DOMAIN map1 \ {order1[1]} |-> map1[b]]]
             ELSE [branchOrder |-> order1, branches |-> map1]
    ELSE [branchOrder |-> P.branchOrder, branches |-> P.branches]

\* the row saveThought inserts (confidence || null)
thoughtRow(t) ==
    [thought_number |-> t.thought_number, total_thoughts |-> t.total_thoughts,
     confidence |-> IF t.confidence = 0 THEN Undefined ELSE t.confidence]

\* saveThought: "saved" commits the row; "null" is a disabled or closed
\* database, or a statement that failed and was rolled back
saveThought(store, t, outcome) ==
    IF outcome = "saved" THEN Append(store, thoughtRow(t)) ELSE store

finalizeToolChain(lib, cfg, t) ==
    IF ~cfg.enableToolChains \/ t.next_thought_needed THEN lib
    ELSE finalizeCurrentChain(lib,
            (IF t.confidence = 0 THEN 500 ELSE t.confidence) >= 500, t.confidence)

NoResult ==
    [kind |-> "none", thought_number |-> 0, total_thoughts |-> 0, confidence |-> 0,
     next_thought_needed |-> FALSE, thought_history_length |-> 0, branches |-> <<>>,
     dag_stats |-> NoDagStats, backtrack_to_thought |-> 0, isError |-> FALSE]

\* evaluateBacktracking: the backtrack payload
backtrackPayload(t, backtrackTo) ==
    [NoResult EXCEPT !.kind = "backtrack", !.thought_number = t.thought_number,
                     !.total_thoughts = t.total_thoughts, !.confidence = t.confidence,
                     !.backtrack_to_thought = backtrackTo]

\* processThought: the payload of a step that was accepted
payload(P, t, dagStats) ==
    [NoResult EXCEPT !.kind = "ok", !.thought_number = t.thought_number,
                     !.total_thoughts = t.total_thoughts, !.confidence = t.confidence,
                     !.next_thought_needed = t.next_thought_needed,
                     !.thought_history_length = Len(P.thoughtHistory),
                     !.branches = P.branchOrder,
                     !.dag_stats = dagStats]

(***************************************************************************)
(* processThought runs in three stretches separated by its two awaits.     *)
(* Each stretch is an operator from the processor's state, and what the    *)
(* call carries across the await (pend), to the same after the stretch.    *)
(* pend.stage is the await the call is suspended at ("dag", "persist") or  *)
(* "done"; dagOp and saveOp tell what became of the operation handed to    *)
(* the breaker: "off" (not attempted), "open" (rejected by the breaker),   *)
(* "ok" or "failed".  dagFault ("none", "throws") and saveOutcome          *)
(* ("saved", "null", "rejects", or "never" for a promise that does not      *)
(* settle) are the behaviour of the collaborators.                         *)
(***************************************************************************)
NoPend(input) ==
    [stage |-> "start", thought |-> input, dagOp |-> "off", dagStats |-> NoDagStats,
     saveOp |-> "off", result |-> NoResult]

\* prepareThought, evaluateBacktracking, recordStep and updateDAG up to its await
processBegin(P, cfg, input, dagFault, t) ==
    LET prepared == prepareThought(input)
        decision == shouldBacktrack(P, cfg, prepared)
        P1 == [P EXCEPT !.thoughtConfidenceMap = decision.thoughtConfidenceMap,
                        !.backtrackHistory = decision.backtrackHistory]
    IN  IF decision.shouldBacktrack
        THEN [proc |-> P1,
              pend |-> [NoPend(input) EXCEPT !.stage = "done", !.thought = prepared,
                            !.result = backtrackPayload(prepared, decision.backtrackTo)]]
        ELSE LET thought == recordStep(prepared)
                 P2 == IF thought.tools # <<>> /\ cfg.enableToolChains
                       THEN [P1 EXCEPT !.lib = recordToolUse(@, ToolNames(thought.tools))]
                       ELSE P1
                 pend0 == [NoPend(input) EXCEPT !.stage = "dag", !.thought = thought]
             IN  IF ~cfg.enableDAG
                 THEN [proc |-> P2, pend |-> pend0]
                 ELSE IF executeRejects(P2.dagBreaker, t)
                 THEN [proc |-> P2, pend |-> [pend0 EXCEPT !.dagOp = "open"]]
                 ELSE LET d == updateDAGOperation(P2.dag, thought)
                      IN  [proc |-> [P2 EXCEPT !.dagBreaker = executeEnter(@), !.dag = d],
                           pend |-> [pend0 EXCEPT
                                !.dagOp = IF dagFault = "throws" THEN "failed" ELSE "ok",
                                !.dagStats = dagStatsOf(d)]]

\* the rest of updateDAG, the history append, enforceHistoryLimit,
\* updateBranches and persistThought up to its await
processAfterDag(P, cfg, pend, saveOutcome, t) ==
    LET P1 == [P EXCEPT !.dagBreaker =
                    CASE pend.dagOp = "ok" -> executeSuccess(@, DagBreakerConfig)
                      [] pend.dagOp = "failed" -> executeFailure(@, DagBreakerConfig, t)
                      [] OTHER -> @]
        P2 == [P1 EXCEPT !.thoughtHistory = enforceHistoryLimit(Append(@, pend.thought), cfg)]
        br == updateBranches(P2, cfg, pend.thought)
        P3 == [P2 EXCEPT !.branches = br.branches, !.branchOrder = br.branchOrder]
        pend1 == [pend EXCEPT !.stage = "persist",
                              !.dagStats = updateDAGResult(pend.dagOp, pend.dagStats)]
    IN  IF executeRejects(P3.persistenceBreaker, t)
        THEN [proc |-> P3, pend |-> [pend1 EXCEPT !.saveOp = "open"]]
        ELSE [proc |-> [P3 EXCEPT !.persistenceBreaker = executeEnter(@),
                                  !.store = saveThought(@, pend.thought, saveOutcome)],
              pend |-> [pend1 EXCEPT
                    !.saveOp = CASE saveOutcome = "rejects" -> "failed"
                                 [] saveOutcome = "never" -> "pending"
                                 [] OTHER -> "ok"]]

\* the rest of persistThought, finalizeToolChain and the payload
persistThoughtSettled(P, pend, t) ==
    [P EXCEPT !.persistenceBreaker =
        CASE pend.saveOp = "ok" -> executeSuccess(@, PersistenceBreakerConfig)
          [] pend.saveOp = "failed" -> executeFailure(@, PersistenceBreakerConfig, t)
          [] OTHER -> @]

processAfterPersist(P, cfg, pend, t) ==
    LET P1 == persistThoughtSettled(P, pend, t)
        P2 == [P1 EXCEPT !.lib = finalizeToolChain(@, cfg, pend.thought)]
    IN  [proc |-> P2,
         pend |-> [pend EXCEPT !.stage = "done",
                               !.result = payload(P2, pend.thought, pend.dagStats)]]

(***************************************************************************)
(* ToolAwareSequentialThinkingServer.processThought (server.ts): every     *)
(* call goes through withSessionLock(this.sessionId, ...).  A call is a    *)
(* withSessionLock call record that also carries the input and pend.       *)
(***************************************************************************)
SessionId == "s1"

ThoughtInputs(numbers, totals, revised, branched, confidences, needed, toolsets) ==
    { [thought_number |-> n, total_thoughts |-> tt, is_revision |-> r # 0,
       revises_thought |-> r, branch_from_thought |-> b.from, branch_id |-> b.id,
       next_thought_needed |-> ntn, confidence |-> c, tools |-> ts,
       previous_steps |-> <<>>] :
        n \in numbers, tt \in totals, r \in revised, b \in branched,
        c \in confidences, ntn \in needed, ts \in toolsets }

NoBranch == [from |-> 0, id |-> ""]

TwoTools == <<[tool_name |-> "a", confidence |-> 900], [tool_name |-> "b", confidence |-> 500]>>

ProcessorConfigs(sizes, auto, dagOn) ==
    [maxHistorySize : sizes, enableAutoBacktrack : auto, minConfidence : {300},
     maxBacktrackDepth : {5}, enableDAG : dagOn, enableToolChains : {TRUE}]

ServerStart(configs) ==
    /\ proc = NewProcessor(0)
    /\ procConfig \in configs
    /\ btLog = <<>>
    /\ chainLog = <<>>

\* withSessionLock's synchronous body for a processThought call
SubmitThought(input, max) ==
    /\ Len(lockCalls) < max
    /\ lockCalls' = Append(lockCalls,
            [session |-> SessionId, prev |-> sessionLocks[SessionId], run |-> "waiting",
             tracker |-> "pending", invoked |-> 0, input |-> input,
             dagFault |-> "none", saveOutcome |-> "none", pend |-> NoPend(input),
             threw |-> FALSE])
    /\ sessionLocks' = [sessionLocks EXCEPT ![SessionId] = Len(lockCalls) + 1]
    /\ UNCHANGED <<proc, procConfig>>
    /\ UNCHANGED notSrv

\* the reaction job of previous.then(fn): processThought up to its first await
BeginThought(k) ==
    /\ lockCalls[k].run = "waiting"
    /\ previousThen(previousState(lockCalls, k)) = "invoke"
    /\ LET r == processBegin(proc, procConfig, lockCalls[k].input, "none", now)
       IN  /\ proc' = r.proc
           /\ lockCalls' = [lockCalls EXCEPT
                    ![k].run = IF r.pend.stage = "done" THEN "fulfilled" ELSE "running",
                    ![k].invoked = @ + 1,
                    ![k].pend = r.pend]
    /\ UNCHANGED <<sessionLocks, procConfig>>
    /\ UNCHANGED notSrv

\* the await of updateDAG resumes
ResumeAfterDag(k, saveOutcome) ==
    /\ lockCalls[k].run = "running"
    /\ lockCalls[k].pend.stage = "dag"
    /\ LET r == processAfterDag(proc, procConfig, lockCalls[k].pend, saveOutcome, now)
       IN  /\ proc' = r.proc
           /\ lockCalls' = [lockCalls EXCEPT ![k].pend = r.pend,
                                             ![k].saveOutcome = saveOutcome]
    /\ UNCHANGED <<sessionLocks, procConfig>>
    /\ UNCHANGED notSrv

\* the await of persistThought resumes and the call returns
ResumeAfterPersist(k) ==
    /\ lockCalls[k].run = "running"
    /\ lockCalls[k].pend.stage = "persist"
    /\ lockCalls[k].pend.saveOp # "pending"
    /\ LET r == processAfterPersist(proc, procConfig, lockCalls[k].pend, now)
       IN  /\ proc' = r.proc
           /\ lockCalls' = [lockCalls EXCEPT ![k].pend = r.pend, ![k].run = "fulfilled"]
    /\ UNCHANGED <<sessionLocks, procConfig>>
    /\ UNCHANGED notSrv

\* the finally() callback of the call's tracker
ReleaseLock(k) ==
    /\ lockCalls[k].run \in Settled
    /\ lockCalls[k].tracker = "pending"
    /\ sessionLocks' = trackerFinally(sessionLocks, lockCalls, k)
    /\ lockCalls' = [lockCalls EXCEPT ![k].tracker = lockCalls[k].run]
    /\ UNCHANGED <<proc, procConfig>>
    /\ UNCHANGED notSrv

\* the response built by the catch block of the server's processThought
errorResponse(input) ==
    [NoResult EXCEPT !.kind = "failed", !.thought_number = input.thought_number,
                     !.isError = TRUE]

serverCatchRethrows(input) == [run |-> "rejected", result |-> NoResult]

\* try { return await this.processor.processThought(...) } catch (error) { return ... }
serverCatch(input) == [run |-> "fulfilled", result |-> errorResponse(input)]

\* the processor throws before its first await (prepareThought,
\* evaluateBacktracking or recordStep raised)
BeginThrows(k) ==
    /\ lockCalls[k].run = "waiting"
    /\ previousThen(previousState(lockCalls, k)) = "invoke"
    /\ LET caught == serverCatch(lockCalls[k].input)
       IN  lockCalls' = [lockCalls EXCEPT
                ![k].run = caught.run, ![k].invoked = @ + 1, ![k].threw = TRUE,
                ![k].pend = [@ EXCEPT !.stage = "thrown", !.result = caught.result]]
    /\ UNCHANGED <<sessionLocks, proc, procConfig>>
    /\ UNCHANGED notSrv

\* the await of persistThought resumes and formatThought throws
FormatThrows(k) ==
    /\ lockCalls[k].run = "running"
    /\ lockCalls[k].pend.stage = "persist"
    /\ lockCalls[k].pend.saveOp # "pending"
    /\ proc' = persistThoughtSettled(proc, lockCalls[k].pend, now)
    /\ LET caught == serverCatch(lockCalls[k].input)
       IN  lockCalls' = [lockCalls EXCEPT
                ![k].run = caught.run, ![k].threw = TRUE,
                ![k].pend = [@ EXCEPT !.stage = "thrown", !.result = caught.result]]
    /\ UNCHANGED <<sessionLocks, procConfig>>
    /\ UNCHANGED notSrv

\* the inputs of the callers of a server whose pipeline may throw or hang
PipelineInputs ==
    ThoughtInputs(1..2, {2}, {0}, {NoBranch}, {Undefined}, {TRUE}, {<<>>})

\* what the event loop does when it can
PipelineProgress ==
    \/ \E k \in DOMAIN lockCalls : BeginThought(k)
    \/ \E k \in DOMAIN lockCalls : ResumeAfterDag(k, "saved")
    \/ \E k \in DOMAIN lockCalls : ResumeAfterPersist(k)
    \/ \E k \in DOMAIN lockCalls : ReleaseLock(k)

PipelineNext ==
    \/ \E input \in PipelineInputs : SubmitThought(input, MaxPipelineCalls)
    \/ \E k \in DOMAIN lockCalls : BeginThought(k)
    \/ \E k \in DOMAIN lockCalls : BeginThrows(k)
    \/ \E k \in DOMAIN lockCalls, saveOutcome \in {"saved", "rejects", "never"} :
            ResumeAfterDag(k, saveOutcome)
    \/ \E k \in DOMAIN lockCalls : ResumeAfterPersist(k)
    \/ \E k \in DOMAIN lockCalls : FormatThrows(k)
    \/ \E k \in DOMAIN lockCalls : ReleaseLock(k)

\* a caller that awaits each call before it makes the next
ProcessThought(input, dagFault, saveOutcome, max) ==
    /\ Len(lockCalls) < max
    /\ sessionLocks[SessionId] = 0
    /\ \E a \in {processBegin(proc, procConfig, input, dagFault, now)} :
       \E b \in {IF a.pend.stage = "done" THEN a
                 ELSE processAfterDag(a.proc, procConfig, a.pend, saveOutcome, now)} :
       \E r \in {IF b.pend.stage = "done" THEN b
                 ELSE processAfterPersist(b.proc, procConfig, b.pend, now)} :
            /\ proc' = r.proc
            /\ lockCalls' = Append(lockCalls,
                    [session |-> SessionId, prev |-> 0, run |-> "fulfilled",
                     tracker |-> "fulfilled", invoked |-> 1, input |-> input,
                     dagFault |-> dagFault, saveOutcome |-> saveOutcome, pend |-> r.pend,
                     threw |-> FALSE])
    /\ UNCHANGED <<sessionLocks, procConfig>>
    /\ UNCHANGED notSrv

\* the clock advances by a second
ServerTick ==
    /\ now < MaxTime * 1000
    /\ now' = now + 1000
    /\ UNCHANGED <<breaker, config, ops, cbLog>>
    /\ UNCHANGED <<lockVars, dagVars, procVars, graphVars, storeVars>>

\* the inputs of the concurrent callers
ServerInputs ==
    ThoughtInputs(1..2, {2}, {0}, {NoBranch}, {Undefined, 200}, {TRUE}, {<<>>})

ServerNext ==
    \/ \E input \in ServerInputs : SubmitThought(input, MaxServerCalls)
    \/ \E k \in DOMAIN lockCalls : BeginThought(k)
    \/ \E k \in DOMAIN lockCalls : ResumeAfterDag(k, "saved")
    \/ \E k \in DOMAIN lockCalls : ResumeAfterPersist(k)
    \/ \E k \in DOMAIN lockCalls : ReleaseLock(k)

\* ThoughtProcessor.clear with the clear() of its collaborators, and the rows
\* persistence.clearHistory deletes; the breakers are left alone
clear(P) ==
    [NewProcessor(0) EXCEPT !.dagBreaker = P.dagBreaker,
                            !.persistenceBreaker = P.persistenceBreaker]

\* server.clearHistory(): synchronous, outside withSessionLock
ClearHistory ==
    /\ Len(clears) < MaxClears
    /\ proc' = clear(proc)
    /\ clears' = Append(clears,
            [submitted |-> Len(lockCalls),
             waiting |-> {k \in DOMAIN lockCalls : lockCalls[k].run = "waiting"},
             running |-> {k \in DOMAIN lockCalls : lockCalls[k].run = "running"}])
    /\ UNCHANGED <<lockVars, procConfig, btLog, chainLog, db, saveLog, loaded>>
    /\ UNCHANGED <<cbVars, dagVars, graphVars>>

\* concurrent callers, one of which clears the history
ClearNext ==
    \/ \E input \in ServerInputs : SubmitThought(input, MaxServerCalls)
    \/ \E k \in DOMAIN lockCalls : BeginThought(k)
    \/ \E k \in DOMAIN lockCalls : ResumeAfterDag(k, "saved")
    \/ \E k \in DOMAIN lockCalls : ResumeAfterPersist(k)
    \/ \E k \in DOMAIN lockCalls : ReleaseLock(k)
    \/ ClearHistory

\* the inputs of the caller that awaits each call
ProcInputs ==
    LET branched == {NoBranch, [from |-> 1, id |-> "b1"]}
    IN  ThoughtInputs(1..2, {2}, {0}, branched, {Undefined, 200}, {TRUE}, {<<>>})
        \cup ThoughtInputs(1..2, {2}, {0}, branched, {Undefined, 200}, {FALSE}, {TwoTools})

ProcNext ==
    \E input \in ProcInputs : ProcessThought(input, "none", "saved", MaxProcCalls)

\* a linear session whose collaborators may fail: step k carries number k
FaultInput(k) ==
    CHOOSE input \in ThoughtInputs({k}, {MaxFaultCalls}, {0}, {NoBranch}, {Undefined},
                                   {TRUE}, {<<>>}) : TRUE

FaultNext ==
    \/ \E dagFault \in {"none", "throws"}, saveOutcome \in {"saved", "null", "rejects"} :
            ProcessThought(FaultInput(Len(lockCalls) + 1), dagFault, saveOutcome,
                           MaxFaultCalls)
    \/ ServerTick

\* a session whose steps may revise step 1 or 2, themselves included
RevisionNext ==
    \E input \in ThoughtInputs(1..2, {2}, 0..2, {NoBranch}, {Undefined}, {TRUE}, {<<>>}) :
        ProcessThought(input, "none", "saved", MaxProcCalls)

\* a session whose steps open and extend branches
BranchInputs ==
    ThoughtInputs({2}, {2}, {0},
                  {NoBranch, [from |-> 1, id |-> "b1"], [from |-> 1, id |-> "b2"],
                   [from |-> 1, id |-> "b3"]},
                  {Undefined}, {TRUE}, {<<>>})

BranchNext ==
    \E input \in BranchInputs : ProcessThought(input, "none", "saved", MaxBranchCalls)

\* a session whose steps carry a confidence, may recommend two tools and may
\* be the last one (next_thought_needed = false)
FinalInputs ==
    ThoughtInputs({1}, {1}, {0}, {NoBranch}, {Undefined, 0, 400, 500, 1000}, BOOLEAN,
                  {<<>>, TwoTools})

FinalNext ==
    \E input \in FinalInputs : ProcessThought(input, "none", "saved", MaxFinalCalls)

(***************************************************************************)
(* A BacktrackingManager whose shouldBacktrack is called directly, as the  *)
(* tests do.  The manager's fields are those of proc; btLog lists the      *)
(* calls with the decision each one got.                                   *)
(***************************************************************************)
BacktrackingConfigs ==
    { [c EXCEPT !.minConfidence = m, !.maxBacktrackDepth = dp] :
        c \in ProcessorConfigs({1000}, BOOLEAN, {FALSE}), m \in {300, 400}, dp \in 1..MaxDepth }

ScoredThoughts ==
    ThoughtInputs(1..MaxScored, {MaxScored}, {0}, {NoBranch}, {Undefined, 100, 500, 600},
                  {TRUE}, {<<>>})

CallShouldBacktrack(t) ==
    /\ Len(btLog) < MaxScorings
    /\ LET r == shouldBacktrack(proc, procConfig, t)
       IN  /\ proc' = [proc EXCEPT !.thoughtConfidenceMap = r.thoughtConfidenceMap,
                                   !.backtrackHistory = r.backtrackHistory]
           /\ btLog' = Append(btLog,
                    [thought_number |-> t.thought_number, confidence |-> t.confidence,
                     shouldBacktrack |-> r.shouldBacktrack, backtrackTo |-> r.backtrackTo])
    /\ UNCHANGED <<procConfig, chainLog>>
    /\ UNCHANGED <<cbVars, lockVars, dagVars, graphVars, storeVars>>

BacktrackNext == \E t \in ScoredThoughts : CallShouldBacktrack(t)

\* calculateConfidence called directly, as the tests do; btLog lists the
\* steps with the score each one got
CallCalculateConfidence(t) ==
    /\ Len(btLog) < MaxConfidenceCalls
    /\ btLog' = Append(btLog, [thought |-> t, score |-> calculateConfidence(t)])
    /\ UNCHANGED <<proc, procConfig, chainLog>>
    /\ UNCHANGED <<cbVars, lockVars, dagVars, graphVars, storeVars>>

ConfidenceNext ==
    \E t \in ThoughtInputs(1..2, {2}, {0, 1}, {NoBranch, [from |-> 1, id |-> "b1"]},
                           {Undefined}, BOOLEAN, {<<>>, TwoTools}) :
        CallCalculateConfidence(t)

(***************************************************************************)
(* A ToolChainLibrary used directly: tools are recorded and the chain is   *)
(* completed.  The library's fields are those of proc.lib; chainLog lists  *)
(* the completeChain calls with the chain each one found accumulated.      *)
(***************************************************************************)
ToolNameSet == {"a", "b", "c", "a->b"}

CallRecordToolUse(name) ==
    /\ Len(proc.lib.currentChain) < MaxChainLength
    /\ Len(chainLog) < MaxCompletions
    /\ proc' = [proc EXCEPT !.lib = recordToolUse(@, <<name>>)]
    /\ UNCHANGED <<procConfig, btLog, chainLog>>
    /\ UNCHANGED <<cbVars, lockVars, dagVars, graphVars, storeVars>>

CallCompleteChain(success, confidence) ==
    /\ Len(chainLog) < MaxCompletions
    /\ proc' = [proc EXCEPT !.lib = completeChain(@, success, confidence)]
    /\ chainLog' = Append(chainLog,
            [sequence |-> proc.lib.currentChain, success |-> success,
             confidence |-> confidence])
    /\ UNCHANGED <<procConfig, btLog>>
    /\ UNCHANGED <<cbVars, lockVars, dagVars, graphVars, storeVars>>

ChainsNext ==
    \/ \E name \in ToolNameSet : CallRecordToolUse(name)
    \/ \E success \in BOOLEAN, confidence \in {0, 500, 900} :
            CallCompleteChain(success, confidence)

(***************************************************************************)
(* PersistenceLayer (persistence.ts): saveThought and getThoughtHistory    *)
(* over the tables thoughts and step_recommendations.  Rows are kept in    *)
(* rowid order; AUTOINCREMENT gives a row the next rowid.                  *)
(***************************************************************************)
Null == 0

EmptyDatabase(enablePersistence) ==
    [enablePersistence |-> enablePersistence, thoughts |-> <<>>,
     step_recommendations |-> <<>>]

NoHistory == [called |-> FALSE, sessionId |-> "", thoughts |-> <<>>]

StoreStart ==
    /\ db = EmptyDatabase(TRUE)
    /\ saveLog = <<>>
    /\ loaded = NoHistory
    /\ clears = <<>>

\* INSERT INTO step_recommendations
saveStepRecommendation(tables, thoughtId, step, isCurrent) ==
    [tables EXCEPT !.step_recommendations =
        Append(@, [id |-> Len(@) + 1, thought_id |-> thoughtId,
                   step_description |-> step, is_current |-> isCurrent])]

\* for (const step of thought.previous_steps)
RECURSIVE savePreviousSteps(_, _, _)
savePreviousSteps(tables, thoughtId, steps) ==
    IF steps = <<>> THEN tables
    ELSE savePreviousSteps(saveStepRecommendation(tables, thoughtId, Head(steps), FALSE),
                           thoughtId, Tail(steps))

\* INSERT INTO thoughts: confidence || null, sessionId || null
insertThought(tables, thought, sessionId) ==
    [tables EXCEPT !.thoughts =
        Append(@, [id |-> Len(@) + 1, thought_number |-> thought.thought_number,
                   confidence |-> IF thought.confidence = 0 THEN Undefined
                                  ELSE thought.confidence,
                   session_id |-> sessionId])]

\* saveThought: the id of the new row, or null when persistence is off or a
\* statement failed and the transaction was rolled back
PersistenceLayer_saveThought(tables, thought, sessionId, fails) ==
    IF ~tables.enablePersistence \/ fails THEN [db |-> tables, id |-> Null]
    ELSE LET inserted == insertThought(tables, thought, sessionId)
             thoughtId == Len(inserted.thoughts)
             withCurrent == IF thought.current_step # ""
                            THEN saveStepRecommendation(inserted, thoughtId,
                                                        thought.current_step, TRUE)
                            ELSE inserted
         IN  [db |-> savePreviousSteps(withCurrent, thoughtId, thought.previous_steps),
              id |-> thoughtId]

selectThoughtsAnySession(tables, sessionId) == tables.thoughts

\* SELECT * FROM thoughts WHERE session_id = ?
selectThoughts(tables, sessionId) ==
    SelectSeq(tables.thoughts, LAMBDA row : row.session_id = sessionId)

\* ORDER BY thought_number ASC: every order of the rows that is ascending
\* (SQL leaves the order of rows with equal keys open)
OrderByThoughtNumber(rows) ==
    { order \in [1..Len(rows) -> 1..Len(rows)] :
        /\ \A i, j \in 1..Len(rows) : i # j => order[i] # order[j]
        /\ \A i, j \in 1..Len(rows) :
            i < j => rows[order[i]].thought_number <= rows[order[j]].thought_number }

\* SELECT * FROM step_recommendations WHERE thought_id IN (...)
\* ORDER BY thought_id ASC, is_current DESC, id ASC
RECURSIVE selectSteps(_, _, _)
selectSteps(tables, thoughtIds, thoughtId) ==
    IF thoughtId > Len(tables.thoughts) THEN <<>>
    ELSE (IF thoughtId \in thoughtIds
          THEN SelectSeq(tables.step_recommendations,
                         LAMBDA row : row.thought_id = thoughtId /\ row.is_current)
               \o SelectSeq(tables.step_recommendations,
                            LAMBDA row : row.thought_id = thoughtId /\ ~row.is_current)
          ELSE <<>>)
         \o selectSteps(tables, thoughtIds, thoughtId + 1)

\* the ThoughtData built from a row of thoughts, before its steps are attached
rehydrateThought(row) ==
    [id |-> row.id, thought_number |-> row.thought_number, confidence |-> row.confidence,
     current_step |-> "", previous_steps |-> <<>>, failed |-> FALSE]

\* for (const row of stepRows): a second current step of one thought throws
RECURSIVE attachSteps(_, _)
attachSteps(thoughts, stepRows) ==
    IF stepRows = <<>> THEN thoughts
    ELSE LET row == Head(stepRows)
             attached ==
                [i \in DOMAIN thoughts |->
                    IF thoughts[i].id # row.thought_id THEN thoughts[i]
                    ELSE IF row.is_current
                         THEN (IF thoughts[i].current_step = ""
                               THEN [thoughts[i] EXCEPT !.current_step = row.step_description]
                               ELSE [thoughts[i] EXCEPT !.failed = TRUE])
                         ELSE [thoughts[i] EXCEPT
                                  !.previous_steps = Append(@, row.step_description)]]
         IN  attachSteps(attached, Tail(stepRows))

\* getThoughtHistory: [] without a session id, with persistence off, or when
\* safeExecute caught an error
getThoughtHistory(tables, sessionId, order) ==
    IF ~tables.enablePersistence \/ sessionId = "" THEN <<>>
    ELSE LET rows == selectThoughts(tables, sessionId)
             thoughtRows == [i \in DOMAIN rows |-> rows[order[i]]]
             thoughts == [i \in DOMAIN rows |-> rehydrateThought(thoughtRows[i])]
             thoughtIds == {rows[i].id : i \in DOMAIN rows}
             result == attachSteps(thoughts, selectSteps(tables, thoughtIds, 1))
         IN  IF \E i \in DOMAIN result : result[i].failed THEN <<>>
             ELSE [i \in DOMAIN result |->
                    [thought_number |-> result[i].thought_number,
                     confidence |-> result[i].confidence,
                     current_step |-> result[i].current_step,
                     previous_steps |-> result[i].previous_steps]]

\* the session ids of the callers; "" is a call without one
SessionIds == {"s1", "s2", ""}

StoredThoughts ==
    [thought_number : 1..MaxStoredNumber, confidence : {0},
     current_step : {"", "z"}, previous_steps : {<<>>, <<"y", "x">>}]

Databases == {EmptyDatabase(e) : e \in BOOLEAN}

SaveThought(thought, sessionId, fails) ==
    /\ Len(saveLog) < MaxSaves
    /\ \E saved \in {PersistenceLayer_saveThought(db, thought,
                        IF sessionId = "" THEN "null" ELSE sessionId, fails)} :
        /\ db' = saved.db
        /\ saveLog' = Append(saveLog, [thought |-> thought, sessionId |-> sessionId,
                                       id |-> saved.id])
    /\ loaded' = NoHistory
    /\ UNCHANGED clears
    /\ UNCHANGED notStore

GetThoughtHistory(sessionId) ==
    /\ ~loaded.called
    /\ \E order \in OrderByThoughtNumber(selectThoughts(db, sessionId)) :
        loaded' = [called |-> TRUE, sessionId |-> sessionId,
                    thoughts |-> getThoughtHistory(db, sessionId, order)]
    /\ UNCHANGED <<db, saveLog, clears>>
    /\ UNCHANGED notStore

StoreNext ==
    \/ \E thought \in StoredThoughts, sessionId \in SessionIds, fails \in BOOLEAN :
        SaveThought(thought, sessionId, fails)
    \/ \E sessionId \in SessionIds : GetThoughtHistory(sessionId)

\* a write that rejects when the statement fails
saveThoughtRejects(saved) == IF saved.id = Null THEN "rejects" ELSE "saved"

\* what the promise of saveThought settles with, as persistThought sees it:
\* return result.success ? result.data! : null
saveThoughtSettles(saved) == IF saved.id = Null THEN "null" ELSE "saved"

\* a session whose writes go to a database whose statements may fail
StorageNext ==
    \E input \in ThoughtInputs(1..MaxStoredNumber, {MaxStoredNumber}, {0}, {NoBranch},
                               {Undefined}, {TRUE}, {<<>>}),
       fails \in BOOLEAN :
    \E stored \in {st \in StoredThoughts : st.thought_number = input.thought_number
                                             /\ st.current_step = "" /\ st.previous_steps = <<>>} :
        ProcessThought(input, "none",
                       saveThoughtSettles(PersistenceLayer_saveThought(db, stored, SessionId, fails)),
                       MaxFaultCalls)

(***************************************************************************)
(* Specifications.                                                         *)
(***************************************************************************)
IdleBreaker == CBStart /\ config = [failureThreshold |-> 1, resetTimeoutMs |-> 0,
                                    halfOpenSuccessThreshold |-> 1]

\* a server that is constructed and not used
IdleServer == ServerStart(ProcessorConfigs({1000}, {FALSE}, {FALSE}))

CBInit == CBStart /\ LockStart /\ DagStart /\ StoreStart /\ IdleServer

DagInit == IdleBreaker /\ LockStart /\ DagStart /\ StoreStart /\ IdleServer

SpecDag == DagInit /\ [][DagNext]_vars

\* the graph used freely
SpecGraph == DagInit /\ [][GraphNext]_vars

\* the graph built in any order and marked
SpecMarks == DagInit /\ [][MarksNext]_vars

SpecCB == CBInit /\ [][CBNext]_vars

LockInit == IdleBreaker /\ LockStart /\ DagStart /\ StoreStart /\ IdleServer

SpecLock == LockInit /\ [][LockNext]_vars

\* a BacktrackingManager on its own
BacktrackInit ==
    /\ IdleBreaker /\ LockStart /\ DagStart /\ StoreStart
    /\ ServerStart(BacktrackingConfigs)

SpecBacktrack == BacktrackInit /\ [][BacktrackNext]_vars

\* a BacktrackingManager constructed with the scoring weights of a
\* configuration: new BacktrackingManager(config) keeps every field it is given
ConfidenceInit ==
    /\ IdleBreaker /\ LockStart /\ DagStart /\ StoreStart
    /\ proc = NewProcessor(0)
    /\ procConfig \in [minConfidence : {300}, enableAutoBacktrack : {FALSE},
                        maxBacktrackDepth : {5}, baseConfidence : {500},
                        toolConfidenceWeight : {300, 400}, revisionPenalty : {100},
                        branchBonus : {50}, progressBonus : {100, 200},
                        progressThreshold : {600, 800}]
    /\ btLog = <<>>
    /\ chainLog = <<>>

SpecConfidence == ConfidenceInit /\ [][ConfidenceNext]_vars

\* a ToolChainLibrary on its own
ChainsInit == IdleBreaker /\ LockStart /\ DagStart /\ StoreStart /\ IdleServer

SpecChains == ChainsInit /\ [][ChainsNext]_vars

\* a PersistenceLayer on its own, enabled or not
StoreInit ==
    /\ IdleBreaker /\ LockStart /\ DagStart /\ IdleServer
    /\ db \in Databases /\ saveLog = <<>> /\ loaded = NoHistory /\ clears = <<>>

SpecStore == StoreInit /\ [][StoreNext]_vars

\* concurrent callers of one server
ServerInit ==
    /\ IdleBreaker /\ LockStart /\ DagStart /\ StoreStart
    /\ ServerStart(ProcessorConfigs({MaxHistory}, {TRUE}, {TRUE}))

SpecServer == ServerInit /\ [][ServerNext]_vars

\* concurrent callers of a server whose pipeline may throw or hang
SpecPipeline == ServerInit /\ [][PipelineNext]_vars

\* the same without the dependency graph, with an event loop that runs every
\* job that is ready
PipelineFairInit ==
    /\ IdleBreaker /\ LockStart /\ DagStart /\ StoreStart
    /\ ServerStart(ProcessorConfigs({MaxHistory}, {TRUE}, {FALSE}))

SpecPipelineFair == PipelineFairInit /\ [][PipelineNext]_vars /\ WF_vars(PipelineProgress)

\* one caller, every configuration
ProcInit ==
    /\ IdleBreaker /\ LockStart /\ DagStart /\ StoreStart
    /\ ServerStart(ProcessorConfigs(1..MaxHistory, BOOLEAN, {TRUE}))

SpecProc == ProcInit /\ [][ProcNext]_vars

\* one caller, collaborators that may fail
FaultInit ==
    /\ IdleBreaker /\ LockStart /\ DagStart /\ StoreStart
    /\ ServerStart(ProcessorConfigs({MaxHistory}, {FALSE}, BOOLEAN))

SpecFault == FaultInit /\ [][FaultNext]_vars

SpecClear == ServerInit /\ [][ClearNext]_vars

\* the server of SpecFault on a database whose statements may fail
SpecStorage == FaultInit /\ [][StorageNext]_vars

SpecRevisions == ProcInit /\ [][RevisionNext]_vars

\* one caller whose steps open branches, every history size
BranchInit ==
    /\ IdleBreaker /\ LockStart /\ DagStart /\ StoreStart
    /\ ServerStart(ProcessorConfigs(1..MaxHistory, {FALSE}, {FALSE}))

SpecBranches == BranchInit /\ [][BranchNext]_vars

\* one caller whose steps may finish the tool chain
FinalInit ==
    /\ IdleBreaker /\ LockStart /\ DagStart /\ StoreStart
    /\ ServerStart(ProcessorConfigs({MaxHistory}, BOOLEAN, {FALSE}))

SpecFinal == FinalInit /\ [][FinalNext]_vars

(***************************************************************************)
(* Claims about the circuit breaker (checked under SpecCB).                *)
(***************************************************************************)

\* C4: with failureThreshold = 1 a failed call leaves the breaker open and, the
\* reset timeout being positive, the next execute call is rejected; while the
\* breaker is open and the reset timeout has not elapsed, every execute call
\* is rejected with CircuitBreakerOpenError and no operation is invoked.
C4_OpenFailsFast ==
    [][ /\ (cbLog'.failed # cbLog.failed /\ config.failureThreshold = 1)
            => /\ breaker'.state = "open"
               /\ (config.resetTimeoutMs > 0 => executeRejects(breaker', now'))
        /\ (breaker.state = "open" /\ now < breaker.nextAttempt)
            => /\ cbLog'.invoked = cbLog.invoked
               /\ Len(ops') = Len(ops)
               /\ (Calls' # Calls => cbLog'.rejected = cbLog.rejected + 1) ]_vars

\* C4 witness: failureThreshold = 1, the single invoked operation failed and the
\* call that followed it was rejected by the open breaker.
C4_Witness ==
    /\ config.failureThreshold = 1
    /\ cbLog.invoked = 1 /\ cbLog.failed = 1 /\ cbLog.rejected = 1
    /\ cbLog.last = "rejected"
    /\ breaker.state = "open"

\* C5 (as claimed): while the breaker is half-open and the probing call has not
\* settled, no further operation is invoked.
C5_SingleProbe ==
    [][ (breaker.state = "half-open" /\ cbLog.probe # 0)
            => cbLog'.invoked = cbLog.invoked ]_vars

\* C6 (as claimed): a call that succeeds while the breaker is closed leaves the
\* failure counter at zero.
C6_SuccessResetsFailures ==
    [][ (breaker.state = "closed" /\ cbLog'.succeeded # cbLog.succeeded)
            => breaker'.failureCount = 0 ]_vars

\* C7 (as claimed): a half-open breaker closes only when the last
\* halfOpenSuccessThreshold calls settled while half-open all succeeded, and
\* both counters are zero once it is closed.
C7_HalfOpenCloses ==
    [][ (breaker.state = "half-open" /\ breaker'.state = "closed")
            => /\ cbLog'.consec >= config.halfOpenSuccessThreshold
               /\ breaker'.failureCount = 0
               /\ breaker'.successCount = 0 ]_vars

(***************************************************************************)
(* Claims about withSessionLock (checked under SpecLock).                  *)
(***************************************************************************)

\* C8 (as claimed): once a withSessionLock call has settled, its function was
\* invoked exactly once, whatever the earlier calls of its session did.
C8_EveryCallRuns ==
    \A k \in DOMAIN lockCalls :
        lockCalls[k].run \in Settled => lockCalls[k].invoked = 1

(***************************************************************************)
(* Claims about the thought DAG (checked under SpecDag).                   *)
(***************************************************************************)

\* the level of step number n as C10 states it
RECURSIVE ClaimedLevel(_, _)
ClaimedLevel(steps, n) ==
    LET t == steps[CHOOSE i \in DOMAIN steps : steps[i].thought_number = n]
    IN  IF t.dependency = 0 THEN 0 ELSE 1 + ClaimedLevel(steps, t.dependency)

Step(n, dep) == [thought_number |-> n, dependency |-> dep]

\* C10: for distinct steps added in dependency order getParallelGroups returns
\* the steps bucketed by level, levels ascending, every step in exactly one
\* bucket, where a step without dependency has level 0 and any other step has
\* level 1 + the level of its dependency; steps 1..N without revisions or
\* branches give the N singleton groups [1], ..., [N]; steps 1, 2, 3 (branch
\* from 1), 4 (revises 2) give [[1],[2,3],[4]].
C10_ParallelGroupsByLevel ==
    groupsResult.returned =>
        LET G == groupsResult.groups
            steps == dagLog.steps
            numbers == {steps[i].thought_number : i \in DOMAIN steps}
            LevelOf(i) == ClaimedLevel(steps, G[i][1])
        IN  /\ \A i \in DOMAIN G :
                /\ G[i] # <<>>
                /\ \A j \in DOMAIN G[i] : ClaimedLevel(steps, G[i][j]) = LevelOf(i)
                /\ \A k \in DOMAIN G : i < k => LevelOf(i) < LevelOf(k)
            /\ \A n \in numbers :
                    Cardinality({p \in {<<i, j>> : i \in DOMAIN G, j \in 1..MaxAdds} :
                                    p[2] \in DOMAIN G[p[1]] /\ G[p[1]][p[2]] = n}) = 1
            /\ \A i \in DOMAIN G : \A j \in DOMAIN G[i] : G[i][j] \in numbers
            /\ (\A i \in DOMAIN steps : steps[i] = Step(i, i - 1))
                    => G = [i \in DOMAIN steps |-> <<i>>]
            /\ steps = <<Step(1, 0), Step(2, 1), Step(3, 1), Step(4, 2)>>
                    => G = <<<<1>>, <<2, 3>>, <<4>>>>

\* C10 witness: steps 1, 2, 3 (branch from 1), 4 (revises 2) were added and
\* getParallelGroups returned three groups.
C10_Witness ==
    /\ groupsResult.returned
    /\ Len(groupsResult.groups) = 3
    /\ dagLog.steps = <<Step(1, 0), Step(2, 1), Step(3, 1), Step(4, 2)>>

(***************************************************************************)
(* Claims about the step pipeline.                                         *)
(***************************************************************************)
\* the calls whose step reached the history append, in submission order
Appended(calls) ==
    LET Is(c) == \/ c.pend.stage = "persist"
                 \/ c.pend.stage = "done" /\ c.pend.result.kind = "ok"
    IN  SelectSeq(calls, Is)

\* the last Min(Len(calls), size) steps of calls are exactly history
IsTailOf(history, calls, size) ==
    /\ Len(history) = Min(Len(calls), size)
    /\ \A i \in 1..Len(history) :
            history[i] = calls[Len(calls) - Len(history) + i].pend.thought

\* C1: the processThought calls of the server's session run one at a time and in
\* submission order: at most one call is inside the pipeline, a call has begun
\* only if every call submitted before it has returned, with its history append,
\* graph update and persistence write done, and the history and the persisted
\* rows list the accepted steps in submission order.
C1_SessionSerialized ==
    /\ Cardinality({k \in DOMAIN lockCalls : lockCalls[k].run = "running"}) <= 1
    /\ \A k \in DOMAIN lockCalls :
            lockCalls[k].invoked > 0 =>
                \A j \in 1..(k - 1) :
                    /\ lockCalls[j].run \in Settled
                    /\ lockCalls[j].pend.stage = "done"
    /\ IsTailOf(proc.thoughtHistory, Appended(lockCalls), procConfig.maxHistorySize)
    /\ LET appended == Appended(lockCalls)
       IN  proc.store = [i \in 1..Len(appended) |-> thoughtRow(appended[i].pend.thought)]

\* three calls queued behind one another: the first returned, the second is
\* inside the pipeline, the third waits
C1_Witness ==
    /\ Len(lockCalls) = 3
    /\ lockCalls[2].prev = 1 /\ lockCalls[3].prev = 2
    /\ lockCalls[1].run = "fulfilled" /\ lockCalls[1].pend.result.kind = "ok"
    /\ lockCalls[2].run = "running" /\ lockCalls[2].pend.stage = "persist"
    /\ lockCalls[3].run = "waiting"

\* C2: a step whose stated confidence is below minConfidence while automatic
\* backtracking is enabled gets the backtrack payload, and the history, the
\* branch map, the persisted rows, the dependency graph, the tool-chain
\* accumulator and the chain library are left as they were.
C2_BacktrackLeavesState ==
    [][ Len(lockCalls') = Len(lockCalls) + 1 =>
            LET c == lockCalls'[Len(lockCalls')]
            IN  ( /\ procConfig.enableAutoBacktrack
                  /\ c.input.confidence # Undefined
                  /\ c.input.confidence < procConfig.minConfidence )
                => /\ c.pend.result.kind = "backtrack"
                   /\ c.pend.result.thought_number = c.input.thought_number
                   /\ c.pend.result.backtrack_to_thought >= 1
                   /\ proc'.thoughtHistory = proc.thoughtHistory
                   /\ proc'.branches = proc.branches
                   /\ proc'.branchOrder = proc.branchOrder
                   /\ proc'.store = proc.store
                   /\ proc'.dag = proc.dag
                   /\ proc'.lib = proc.lib ]_vars

\* a step was backtracked by a server that holds history, a branch, persisted
\* rows, graph nodes and a recorded chain
C2_Witness ==
    /\ Len(lockCalls) = 3
    /\ lockCalls[3].pend.result.kind = "backtrack"
    /\ lockCalls[3].input.tools # <<>>
    /\ lockCalls[3].input.branch_id # ""
    /\ proc.thoughtHistory # <<>>
    /\ DOMAIN proc.branches # {}
    /\ proc.store # <<>>
    /\ DOMAIN proc.dag.nodes # {}
    /\ DOMAIN proc.lib.chains # {}

\* C3: when the graph update or the persistence write of a step fails (the
\* operation throws or rejects, or its breaker is open), the step is still
\* appended to the history and the call returns the payload of an accepted step;
\* the payload has no dag_stats when it was the graph update that failed.
C3_FailuresAreSurvived ==
    [][ Len(lockCalls') = Len(lockCalls) + 1 =>
            LET c == lockCalls'[Len(lockCalls')]
                dagFailed == /\ procConfig.enableDAG
                             /\ \/ c.dagFault = "throws"
                                \/ executeRejects(proc.dagBreaker, now)
                saveFailed == \/ c.saveOutcome = "rejects"
                              \/ executeRejects(proc.persistenceBreaker, now)
            IN  (dagFailed \/ saveFailed)
                => /\ c.pend.result.kind = "ok"
                   /\ proc'.thoughtHistory # <<>>
                   /\ proc'.thoughtHistory[Len(proc'.thoughtHistory)] = prepareThought(c.input)
                   /\ c.pend.result.thought_history_length = Len(proc'.thoughtHistory)
                   /\ (dagFailed => ~c.pend.result.dag_stats.present) ]_vars

\* three steps whose graph update threw and whose write rejected, then a step
\* that found both breakers open
C3_Witness ==
    /\ Len(lockCalls) = 4
    /\ \A k \in 1..3 : lockCalls[k].pend.dagOp = "failed" /\ lockCalls[k].pend.saveOp = "failed"
    /\ lockCalls[4].pend.dagOp = "open" /\ lockCalls[4].pend.saveOp = "open"
    /\ \A k \in 1..4 : lockCalls[k].pend.result.kind = "ok"
    /\ Len(proc.thoughtHistory) = Min(4, procConfig.maxHistorySize)

\* C9: the history never holds more than maxHistorySize steps; after n steps
\* were accepted (not backtracked) it holds the Min(n, maxHistorySize) most
\* recently accepted ones, in arrival order.
C9_HistoryBounded ==
    /\ Len(proc.thoughtHistory) <= procConfig.maxHistorySize
    /\ IsTailOf(proc.thoughtHistory, Appended(lockCalls), procConfig.maxHistorySize)

\* two steps accepted and one backtracked by a server that keeps one step
C9_Witness ==
    /\ procConfig.maxHistorySize = 1
    /\ Len(lockCalls) = 3
    /\ Len(Appended(lockCalls)) = 2
    /\ lockCalls[2].pend.result.kind = "backtrack"
    /\ Len(proc.thoughtHistory) = 1
    /\ proc.thoughtHistory[1] = lockCalls[3].pend.thought
    /\ lockCalls[1].pend.thought # lockCalls[3].pend.thought

(***************************************************************************)
(* Claims about the graph used freely (SpecGraph).                         *)
(***************************************************************************)
\* the arrays a result is made of: its outer array and its groups
ArraysOf(h, ref) == {ref} \cup {h[ref][i] : i \in DOMAIN h[ref]}

RECURSIVE DependencyClosure(_, _)
DependencyClosure(d, S) ==
    LET grown == S \cup UNION {{d.nodes[m].dependencies[i] : i \in DOMAIN d.nodes[m].dependencies} :
                            m \in S \cap DOMAIN d.nodes}
    IN  IF grown = S THEN S ELSE DependencyClosure(d, grown)

DependsOn(d, n) ==
    DependencyClosure(d, {d.nodes[n].dependencies[i] : i \in DOMAIN d.nodes[n].dependencies})

OnCycle(d, n) == n \in DependsOn(d, n)

Cyclic(d) == \E n \in DOMAIN d.nodes : OnCycle(d, n)

\* C12 (as claimed): getParallelGroups never returns groups for a graph whose
\* dependency relation contains a cycle (it raises a DagCycleError instead).
C12_NoGroupsForCycle ==
    groupsReturned # <<>> => ~Cyclic(dag)

\* C13 (as claimed): on an acyclic graph topologicalSort returns exactly the
\* registered step numbers, each once and each after its dependency; on a graph
\* with a cycle it returns the empty order and leaves executionOrder unchanged.
C13_SortOrdersRegistered ==
    [][ (sortReturned'.called /\ ~sortReturned.called) =>
            LET order == sortReturned'.order
                Position(n) == CHOOSE i \in DOMAIN order : order[i] = n
            IN  IF Cyclic(dag)
                THEN order = <<>> /\ executionOrder' = executionOrder
                ELSE /\ {order[i] : i \in DOMAIN order} = DOMAIN dag.nodes
                     /\ \A i, j \in DOMAIN order : order[i] = order[j] => i = j
                     /\ \A n \in DOMAIN dag.nodes :
                            \A k \in DOMAIN dag.nodes[n].dependencies :
                                LET dep == dag.nodes[n].dependencies[k]
                                IN  dep \in DOMAIN dag.nodes => Position(dep) < Position(n)
      ]_vars

\* C20 (as claimed): whatever steps addThought was given, no registered step
\* depends on itself, directly or transitively.
C20_GraphAcyclic ==
    ~Cyclic(dag)

(***************************************************************************)
(* Claims about the BacktrackingManager (SpecBacktrack).                   *)
(***************************************************************************)
\* the calls before the last one that recorded a confidence for step m
ScoringsOf(log, m) ==
    {i \in 1..(Len(log) - 1) : log[i].thought_number = m /\ log[i].confidence # Undefined}

\* the confidence recorded for step m before the last call: that of its latest scoring
RecordedConfidence(log, m) ==
    log[CHOOSE i \in ScoringsOf(log, m) : \A j \in ScoringsOf(log, m) : j <= i].confidence

Scoring(n, c, decided, to) ==
    [thought_number |-> n, confidence |-> c, shouldBacktrack |-> decided, backtrackTo |-> to]

\* C14: with auto-backtrack enabled, a call for step n whose confidence is below
\* minConfidence answers shouldBacktrack = true and backtrackTo = the largest m in
\* [max(1, n - maxBacktrackDepth), n - 1] whose recorded confidence is at least
\* minConfidence, or max(1, n - maxBacktrackDepth) when there is none; with
\* minConfidence 0.4 and steps 1..3 scored 0.6, 0.5, 0.1 step 3 gets backtrackTo 2.
C14_BacktrackTarget ==
    /\ \A k \in DOMAIN btLog :
        LET log == SubSeq(btLog, 1, k)
            n == btLog[k].thought_number
            floor == Max(1, n - procConfig.maxBacktrackDepth)
            good == {m \in floor..(n - 1) :
                        /\ ScoringsOf(log, m) # {}
                        /\ RecordedConfidence(log, m) >= procConfig.minConfidence}
        IN  ( /\ procConfig.enableAutoBacktrack
              /\ btLog[k].confidence # Undefined
              /\ btLog[k].confidence < procConfig.minConfidence )
            => /\ btLog[k].shouldBacktrack
               /\ btLog[k].backtrackTo =
                    IF good # {} THEN CHOOSE m \in good : \A x \in good : x <= m ELSE floor
    /\ ( /\ procConfig.enableAutoBacktrack /\ procConfig.minConfidence = 400
         /\ Len(btLog) = 3
         /\ \A k \in 1..3 : btLog[k].thought_number = k
         /\ btLog[1].confidence = 600 /\ btLog[2].confidence = 500 /\ btLog[3].confidence = 100 )
       => btLog[3] = Scoring(3, 100, TRUE, 2)

\* steps 1..3 scored 0.6, 0.5, 0.1 against minConfidence 0.4
C14_Witness ==
    /\ procConfig.enableAutoBacktrack /\ procConfig.minConfidence = 400
    /\ btLog = <<Scoring(1, 600, FALSE, 0), Scoring(2, 500, FALSE, 0), Scoring(3, 100, TRUE, 2)>>

(***************************************************************************)
(* Claims about the ToolChainLibrary (SpecChains).                         *)
(***************************************************************************)
SuggestedTools(suggestions) == {suggestions[i].toolName : i \in DOMAIN suggestions}

\* C15 (as claimed): after a sequence s of two or more tools is recorded and
\* completed with success = true and a positive confidence, the library holds
\* exactly one chain for s, for every proper prefix p of s suggestNextTool(p)
\* contains the tool that follows p in s, and when the library holds no other
\* chain that tool is the first suggestion.
C15_ChainRoundTrip ==
    [][ Len(chainLog') = Len(chainLog) + 1 =>
            LET call == chainLog'[Len(chainLog')]
                s == call.sequence
                lib == proc'.lib
            IN  (Len(s) >= 2 /\ call.success /\ call.confidence > 0) =>
                    /\ Cardinality({k \in DOMAIN lib.chains : lib.chains[k].sequence = s}) = 1
                    /\ \A n \in 0..(Len(s) - 1) :
                        LET suggestions == suggestNextTool(lib, SubSeq(s, 1, n))
                        IN  /\ s[n + 1] \in SuggestedTools(suggestions)
                            /\ Cardinality(DOMAIN lib.chains) = 1 =>
                                    suggestions[1].toolName = s[n + 1]
      ]_vars

(***************************************************************************)
(* Claims about the persistence layer (checked under SpecStore).           *)
(***************************************************************************)
\* what identifies a step and its recommendations, saved or loaded
StepOf(t) ==
    [thought_number |-> t.thought_number, current_step |-> t.current_step,
     previous_steps |-> t.previous_steps]

\* the steps saveThought stored for a session, in the order of the calls
SavedFor(sessionId) ==
    SelectSeq(saveLog, LAMBDA call : call.sessionId = sessionId /\ call.id # Null)

CountIn(seq, step) == Cardinality({i \in DOMAIN seq : seq[i] = step})

\* C16: getThoughtHistory(sessionId) returns exactly the steps saved for that
\* session (as many of each as were saved, none of another session), in
\* ascending thought_number order, each with its one current recommendation
\* and its previous recommendations in the order they were given.
C16_HistoryIsWhatWasSaved ==
    (loaded.called /\ loaded.sessionId # "") =>
        LET saved == SavedFor(loaded.sessionId)
            savedSteps == [i \in DOMAIN saved |-> StepOf(saved[i].thought)]
            loadedSteps == [i \in DOMAIN loaded.thoughts |-> StepOf(loaded.thoughts[i])]
        IN  /\ Len(loadedSteps) = Len(savedSteps)
            /\ \A i \in DOMAIN savedSteps :
                CountIn(loadedSteps, savedSteps[i]) = CountIn(savedSteps, savedSteps[i])
            /\ \A i, j \in DOMAIN loadedSteps :
                i < j => loadedSteps[i].thought_number <= loadedSteps[j].thought_number

\* two steps of s1 saved in descending order, one with a current and two
\* previous recommendations, a step of s2 saved too, and s1 loaded
C16_Witness ==
    /\ loaded.called /\ loaded.sessionId = "s1"
    /\ Len(loaded.thoughts) = 2
    /\ loaded.thoughts[1].thought_number < loaded.thoughts[2].thought_number
    /\ SavedFor("s1")[1].thought.thought_number = loaded.thoughts[2].thought_number
    /\ loaded.thoughts[1].current_step = "z"
    /\ loaded.thoughts[1].previous_steps = <<"y", "x">>
    /\ SavedFor("s2") # <<>>

(***************************************************************************)
(* Claims about the structured result (checked under SpecProc).            *)
(***************************************************************************)
\* C17: the result of an accepted step echoes the step's markers: is_revision
\* and revises_thought of a revision, branch_from_thought of a branch.
C17_ResultEchoesMarkers ==
    [][ Len(lockCalls') = Len(lockCalls) + 1 =>
            LET c == lockCalls'[Len(lockCalls')]
                result == c.pend.result
            IN  result.kind = "ok" =>
                    /\ c.input.is_revision =>
                            /\ "is_revision" \in DOMAIN result
                            /\ result.is_revision = TRUE
                            /\ "revises_thought" \in DOMAIN result
                            /\ result.revises_thought = c.input.revises_thought
                    /\ c.input.branch_from_thought # 0 =>
                            /\ "branch_from_thought" \in DOMAIN result
                            /\ result.branch_from_thought = c.input.branch_from_thought
      ]_vars

(***************************************************************************)
(* Claims about failures of the pipeline (checked under SpecPipeline and   *)
(* SpecPipelineFair).                                                      *)
(***************************************************************************)
\* C18: whatever the pipeline throws while a step is processed is caught: the
\* call's promise is never rejected, and a call whose pipeline threw is
\* fulfilled with a response that has isError = true.
C18_ThrowsBecomeErrorResponses ==
    \A k \in DOMAIN lockCalls :
        /\ lockCalls[k].run # "rejected"
        /\ lockCalls[k].tracker # "rejected"
        /\ lockCalls[k].threw =>
                /\ lockCalls[k].run = "fulfilled"
                /\ lockCalls[k].pend.result.isError = TRUE
                /\ lockCalls[k].pend.result.kind = "failed"

\* a call whose pipeline threw after the persistence write returned the error
\* response, and the call queued behind it was processed and accepted
C18_Witness ==
    /\ Len(lockCalls) >= 2
    /\ lockCalls[1].threw /\ lockCalls[1].invoked = 1
    /\ lockCalls[1].pend.saveOp = "ok"
    /\ lockCalls[1].pend.result.isError
    /\ lockCalls[2].prev = 1
    /\ lockCalls[2].run = "fulfilled" /\ lockCalls[2].pend.result.kind = "ok"

\* C19: a persistence call that never settles does not block its session for
\* ever: every submitted call, the one that made the write and the ones
\* queued behind it, eventually completes.
C19_StuckSaveIsBounded ==
    \A k \in 1..MaxPipelineCalls :
        (k \in DOMAIN lockCalls) ~> (k \in DOMAIN lockCalls /\ lockCalls[k].run \in Settled)

(***************************************************************************)
(* Further claims about the thought DAG used freely (SpecGraph).           *)
(***************************************************************************)
\* the positions <<i, j>> of G at which step n stands
PositionsOf(G, n) ==
    {p \in UNION {{<<i, j>> : j \in DOMAIN G[i]} : i \in DOMAIN G} : G[p[1]][p[2]] = n}

\* the dependencies of the registered steps that were never added
MissingDependencies(d) ==
    {dep \in UNION {{d.nodes[n].dependencies[i] : i \in DOMAIN d.nodes[n].dependencies} :
                    n \in DOMAIN d.nodes} : dep \notin DOMAIN d.nodes}

DependenciesOf(d, c) == {d.nodes[c].dependencies[i] : i \in DOMAIN d.nodes[c].dependencies}

ChildrenOf(d, p) == {d.nodes[p].children[i] : i \in DOMAIN d.nodes[p].children}

\* the level a depth-first resolution over the current nodes gives step n:
\* 0 for a step that is not registered or has no dependency, else 1 + the
\* level of its dependency
RECURSIVE ResolvedLevel(_, _)
ResolvedLevel(d, n) ==
    IF n \notin DOMAIN d.nodes \/ d.nodes[n].dependencies = <<>> THEN 0
    ELSE 1 + ResolvedLevel(d, d.nodes[n].dependencies[1])

\* the registered steps bucketed by resolved level, levels ascending
RecomputedGroups(d) ==
    LET levels == Ascending({ResolvedLevel(d, n) : n \in DOMAIN d.nodes})
        InLevel(l) == LET Is(n) == ResolvedLevel(d, n) = l IN SelectSeq(d.order, Is)
    IN  [i \in DOMAIN levels |-> InLevel(levels[i])]

\* C22 (as claimed): after any sequence of addThought, markExecuting,
\* markCompleted, markFailed, topologicalSort and clear calls, getParallelGroups
\* returns the groups a recomputation from scratch over the current nodes
\* gives (checked on graphs without a cycle, where that recomputation is defined).
C22_GroupsAreRecomputed ==
    (groupsResult.returned /\ ~Cyclic(dag)) => groupsResult.groups = RecomputedGroups(dag)

\* the step just taken was a mark call op(n) on a registered step
JustMarked(op, n) ==
    /\ Len(dagCalls') = Len(dagCalls) + 1
    /\ dagCalls'[Len(dagCalls')].op = op
    /\ dagCalls'[Len(dagCalls')].n = n

\* C23 (as claimed): after markCompleted(p) every registered step that depends
\* on p, was pending and has all its dependencies completed is ready, in
\* whatever order p and the step were added.
C23_CompletionPromotesDependents ==
    [][ \A p \in 1..MaxMarkNumber :
            JustMarked("markCompleted", p) =>
                \A c \in DOMAIN dag.nodes :
                    ( /\ c # p
                      /\ p \in DependenciesOf(dag, c)
                      /\ dag.nodes[c].status = "pending"
                      /\ allDepsCompleted(dag'.nodes, c) )
                    => dag'.nodes[c].status = "ready"
      ]_vars

\* the children reached from the steps of S without passing through a child
\* that is completed
RECURSIVE FailureReach(_, _)
FailureReach(d, S) ==
    LET grown == S \cup {c \in UNION {ChildrenOf(d, m) : m \in S} :
                            c \in DOMAIN d.nodes /\ d.nodes[c].status # "completed"}
    IN  IF grown = S THEN S ELSE FailureReach(d, grown)

\* C24 (as claimed): after markFailed(n), n and every transitive child of n
\* reached without passing through a completed child is failed, and every
\* other step that was completed before the call still is.
C24_FailurePropagates ==
    [][ \A n \in 1..MaxMarkNumber :
            JustMarked("markFailed", n) =>
                /\ \A c \in FailureReach(dag, {n}) : dag'.nodes[c].status = "failed"
                /\ \A m \in DOMAIN dag.nodes \ {n} :
                        dag.nodes[m].status = "completed" => dag'.nodes[m].status = "completed"
      ]_vars

\* C25 (as claimed): when the steps added carry pairwise distinct numbers, in
\* any order, c is a child of p exactly when p is a dependency of c and both
\* are registered.
C25_ChildrenInvertDependencies ==
    (\A i, j \in DOMAIN dagLog.steps :
        dagLog.steps[i].thought_number = dagLog.steps[j].thought_number => i = j)
    => \A p, c \in 1..MaxMarkNumber :
            (p \in DOMAIN dag.nodes /\ c \in ChildrenOf(dag, p))
            <=> (p \in DOMAIN dag.nodes /\ c \in DOMAIN dag.nodes /\ p \in DependenciesOf(dag, c))

\* C26 (as claimed): in whatever order the steps were added, the stored level
\* of a registered step is at least that of each of its registered
\* dependencies, and a step without dependency has level 0 and is created ready.
C26_LevelsGrowAlongEdges ==
    [][ Len(dagLog'.steps) = Len(dagLog.steps) + 1 =>
            LET added == dagLog'.steps[Len(dagLog'.steps)].thought_number
            IN  /\ \A c \in DOMAIN dag'.nodes :
                    /\ \A p \in DependenciesOf(dag', c) \cap DOMAIN dag'.nodes :
                            dag'.nodes[c].level >= dag'.nodes[p].level
                    /\ dag'.nodes[c].dependencies = <<>> => dag'.nodes[c].level = 0
                /\ dag'.nodes[added].dependencies = <<>> => dag'.nodes[added].status = "ready"
      ]_vars

(***************************************************************************)
(* Claims about the confidence record and the decisions (SpecBacktrack).   *)
(***************************************************************************)
\* C27 (as claimed): once shouldBacktrack has recorded a confidence for step n,
\* no later call changes or removes the recorded value, whatever step it scores.
C27_RecordedConfidenceIsFixed ==
    [][ \A n \in DOMAIN proc.thoughtConfidenceMap :
            /\ n \in DOMAIN proc'.thoughtConfidenceMap
            /\ proc'.thoughtConfidenceMap[n] = proc.thoughtConfidenceMap[n] ]_vars

\* C28 (as claimed): every call for step n that answers shouldBacktrack = true
\* proposes an earlier step: max(1, n - maxBacktrackDepth) <= backtrackTo <= n - 1.
C28_TargetIsEarlier ==
    \A k \in DOMAIN btLog :
        LET n == btLog[k].thought_number
        IN  btLog[k].shouldBacktrack
            => /\ Max(1, n - procConfig.maxBacktrackDepth) <= btLog[k].backtrackTo
               /\ btLog[k].backtrackTo <= n - 1

\* the step of ScoredThoughts that a logged call scored
ScoredBy(call) ==
    CHOOSE t \in ScoredThoughts :
        t.thought_number = call.thought_number /\ t.confidence = call.confidence

\* C29 (as claimed): every call for a step that carries a confidence and is
\* answered shouldBacktrack = false returns a reason, and the reason of an
\* acceptable confidence differs from that of a low confidence with
\* auto-backtrack disabled.
C29_NoBacktrackIsExplained ==
    [][ Len(btLog') = Len(btLog) + 1 =>
            LET call == btLog'[Len(btLog')]
                decision == shouldBacktrack(proc, procConfig, ScoredBy(call))
            IN  (call.confidence # Undefined /\ ~call.shouldBacktrack)
                => /\ decision.shouldBacktrack = call.shouldBacktrack
                   /\ decision.reason # NoReason
                   /\ (call.confidence >= procConfig.minConfidence)
                        => decision.reason # AutoBacktrackDisabled ]_vars

(***************************************************************************)
(* Claims about the end of a tool chain (SpecFinal).                       *)
(***************************************************************************)
RECURSIVE SumOverChains(_, _, _)
SumOverChains(chains, keys, field) ==
    IF keys = {} THEN 0
    ELSE LET k == CHOOSE x \in keys : TRUE
         IN  (IF field = "totalUses" THEN chains[k].totalUses ELSE chains[k].successCount)
             + SumOverChains(chains, keys \ {k}, field)

\* the completions the library has counted, and those counted as successes
ChainUses(lib) == SumOverChains(lib.chains, DOMAIN lib.chains, "totalUses")

ChainSuccesses(lib) == SumOverChains(lib.chains, DOMAIN lib.chains, "successCount")

\* C30 (as claimed): a processThought call completes the current tool chain
\* only if its step was accepted with next_thought_needed = false, and the
\* completion counts as a success exactly when the step's confidence is at
\* least 0.5, whatever the confidence in [0, 1].
C30_ChainCompletedByLastStep ==
    [][ ( /\ Len(lockCalls') = Len(lockCalls) + 1
          /\ ChainUses(proc'.lib) > ChainUses(proc.lib) )
        => LET call == lockCalls'[Len(lockCalls')]
               step == call.pend.thought
           IN  /\ call.pend.result.kind = "ok"
               /\ ~step.next_thought_needed
               /\ ChainUses(proc'.lib) = ChainUses(proc.lib) + 1
               /\ (ChainSuccesses(proc'.lib) = ChainSuccesses(proc.lib) + 1)
                    <=> (step.confidence >= 500)
               /\ (ChainSuccesses(proc'.lib) = ChainSuccesses(proc.lib))
                    <=> (step.confidence < 500) ]_vars

(***************************************************************************)
(* Claims about the branch map (SpecBranches).                             *)
(***************************************************************************)
\* the calls from k on that carried branch id b
CallsOnBranch(b, k) ==
    {j \in k..Len(lockCalls) : lockCalls[j].input.branch_id = b}

\* the call that created the branch b now in the map: the map holds the
\* steps the branch received since then
CreatedAt(b) ==
    CHOOSE k \in CallsOnBranch(b, 1) :
        Cardinality(CallsOnBranch(b, k)) = Len(proc.branches[b])

\* C31: the branch map never holds more than maxHistorySize branch ids; a
\* call removes a branch only when its step opens a new branch in a full map,
\* and the branch removed is then the one created earliest among those present.
C31_OldestBranchEvicted ==
    [][ Len(lockCalls') = Len(lockCalls) + 1 =>
            LET step == lockCalls'[Len(lockCalls')].input
                before == DOMAIN proc.branches
                after == DOMAIN proc'.branches
                opens == step.branch_id # "" /\ step.branch_id \notin before
                full == Cardinality(before) = procConfig.maxHistorySize
            IN  /\ Cardinality(after) <= procConfig.maxHistorySize
                /\ (opens /\ full)
                    => \E b \in before :
                        /\ after = (before \ {b}) \cup {step.branch_id}
                        /\ \A c \in before : CreatedAt(b) <= CreatedAt(c)
                /\ ~(opens /\ full)
                    => after = before \cup (IF opens THEN {step.branch_id} ELSE {}) ]_vars

\* a map of two branches, the older of which was extended last, loses the older
\* one to a third branch
C31_Witness ==
    /\ procConfig.maxHistorySize = 2
    /\ Len(lockCalls) = 4
    /\ lockCalls[1].input.branch_id = "b1" /\ lockCalls[2].input.branch_id = "b2"
    /\ lockCalls[3].input.branch_id = "b1" /\ lockCalls[4].input.branch_id = "b3"
    /\ DOMAIN proc.branches = {"b2", "b3"}

(***************************************************************************)
(* Claims about the life of a chain (SpecChains).                          *)
(***************************************************************************)
\* C32: after any recordToolUse and completeChain calls every chain of the
\* library has a sequence of at least 2 tools, totalUses >= 1 and
\* 0 <= successCount <= totalUses; completing an accumulator of fewer than 2
\* tools leaves the chains as they were; a chain once created stays in the
\* library with the id and the sequence it was created with.
C32_ChainLifecycle ==
    [][ /\ \A k \in DOMAIN proc'.lib.chains :
            LET chain == proc'.lib.chains[k]
            IN  /\ Len(chain.sequence) >= 2
                /\ chain.totalUses >= 1
                /\ 0 <= chain.successCount /\ chain.successCount <= chain.totalUses
        /\ \A k \in DOMAIN proc.lib.chains :
            /\ k \in DOMAIN proc'.lib.chains
            /\ proc'.lib.chains[k].id = proc.lib.chains[k].id
            /\ proc'.lib.chains[k].sequence = proc.lib.chains[k].sequence
        /\ (Len(chainLog') = Len(chainLog) + 1 /\ Len(proc.lib.currentChain) < 2)
            => /\ proc'.lib.chains = proc.lib.chains
               /\ proc'.lib.chainIdCounter = proc.lib.chainIdCounter ]_vars

\* a chain completed twice, the second time as a failure
C32_Witness ==
    /\ Len(chainLog) = 2
    /\ Len(chainLog[1].sequence) = 2 /\ chainLog[2].sequence = chainLog[1].sequence
    /\ chainLog[1].success /\ ~chainLog[2].success
    /\ \E k \in DOMAIN proc.lib.chains :
            proc.lib.chains[k].totalUses = 2 /\ proc.lib.chains[k].successCount = 1

(***************************************************************************)
(* Claims about calculateConfidence (SpecConfidence).                      *)
(***************************************************************************)
\* the score the configuration's weights give a step, before the clamp
WeightedScore(cfg, t) ==
    cfg.baseConfidence
    + (IF t.tools # <<>>
       THEN ((SumConfidence(t.tools) \div Len(t.tools)) * cfg.toolConfidenceWeight) \div 1000
       ELSE 0)
    - (IF t.is_revision THEN cfg.revisionPenalty ELSE 0)
    + (IF t.branch_from_thought # 0 THEN cfg.branchBonus ELSE 0)
    + (IF ~t.next_thought_needed
          /\ t.thought_number * 1000 > t.total_thoughts * cfg.progressThreshold
       THEN cfg.progressBonus ELSE 0)

\* C33 (as claimed): calculateConfidence(step) is in [0, 1] and equals the clamp
\* to [0, 1] of baseConfidence + toolConfidenceWeight x (mean confidence of the
\* recommended tools) - revisionPenalty (revision) + branchBonus (branch)
\* + progressBonus (last step past progressThreshold).
C33_ScoreFollowsWeights ==
    \A k \in DOMAIN btLog :
        /\ 0 <= btLog[k].score /\ btLog[k].score <= 1000
        /\ btLog[k].score = Max(0, Min(1000, WeightedScore(procConfig, btLog[k].thought)))

C35_CycleWithholdsDagStats ==
    [][ ( /\ Len(lockCalls') = Len(lockCalls) + 1
          /\ procConfig.enableDAG
          /\ Cyclic(proc.dag) )
        => LET call == lockCalls'[Len(lockCalls')]
           IN  /\ call.pend.result.kind = "ok"
               /\ ~call.pend.result.dag_stats.present
               /\ proc'.thoughtHistory # <<>>
               /\ proc'.thoughtHistory[Len(proc'.thoughtHistory)] = call.pend.thought ]_vars

C37_ClearHistoryIsAtomic ==
    ( /\ clears # <<>>
      /\ clears[Len(clears)].waiting = {}
      /\ clears[Len(clears)].submitted = Len(lockCalls)
      /\ \A k \in DOMAIN lockCalls : lockCalls[k].run \in Settled )
    => /\ proc.thoughtHistory = <<>>
       /\ DOMAIN proc.branches = {}
       /\ DOMAIN proc.dag.nodes = {}
       /\ proc.lib.currentChain = <<>>

(***************************************************************************)
(* Claims about the end of markFailed (SpecMarks).                         *)
(***************************************************************************)
\* C38 (as claimed): every markFailed call on a graph built by addThought
\* calls returns: none ends with the call stack exhausted by propagateFailure
\* calling itself without end, whatever the steps revise or branch from.
C38_MarkFailedTerminates ==
    \A i \in DOMAIN dagCalls : dagCalls[i].op = "markFailed" => ~dagCalls[i].threw

(***************************************************************************)
(* Claims about the failure counter of the breaker (SpecCB).               *)
(***************************************************************************)
\* C39: between the steps of the execute calls the breaker has
\* 0 <= failureCount <= failureThreshold - 1; a failure that brings the
\* counter to the threshold opens the breaker and resets the counter to 0 in
\* the same step, and any other failure adds one to it.
C39_FailureCountBelowThreshold ==
    [][ /\ 0 <= breaker'.failureCount
        /\ breaker'.failureCount <= config.failureThreshold - 1
        /\ (cbLog'.failed = cbLog.failed + 1)
            => IF breaker.failureCount + 1 >= config.failureThreshold
               THEN breaker'.state = "open" /\ breaker'.failureCount = 0
               ELSE /\ breaker'.failureCount = breaker.failureCount + 1
                    /\ breaker'.state = breaker.state ]_vars

\* a breaker with the largest threshold was opened by as many failures, and
\* counts a later failure while it is open
C39_Witness ==
    /\ config.failureThreshold = MaxThreshold
    /\ cbLog.failed = MaxThreshold + 1
    /\ breaker.state = "open"
    /\ breaker.failureCount = IF MaxThreshold = 1 THEN 0 ELSE 1

(***************************************************************************)
(* Claims about the entries of sessionLocks (SpecLock).                    *)
(***************************************************************************)
\* the withSessionLock calls issued for session s
CallsOf(calls, s) == {k \in DOMAIN calls : calls[k].session = s}

\* C40: when every withSessionLock call issued for a session has settled, its
\* promise and the tracker chained on it, sessionLocks holds no entry for the
\* session; an entry is removed only by the tracker of the call queued last
\* for the session, as that tracker settles.
C40_LockEntryRemovedByLastCall ==
    [][ \A s \in Sessions :
            /\ (\A k \in CallsOf(lockCalls', s) : lockCalls'[k].tracker \in Settled)
                => sessionLocks'[s] = 0
            /\ (sessionLocks[s] # 0 /\ sessionLocks'[s] = 0)
                => /\ \A k \in CallsOf(lockCalls, s) : k <= sessionLocks[s]
                   /\ lockCalls[sessionLocks[s]].tracker = "pending"
                   /\ lockCalls'[sessionLocks[s]].tracker \in Settled ]_vars

\* a session whose calls have all settled, one of them rejected, and whose
\* entry is gone while the other session still holds one
C40_Witness ==
    \E s \in Sessions :
        /\ Cardinality(CallsOf(lockCalls, s)) >= 2
        /\ \A k \in CallsOf(lockCalls, s) : lockCalls[k].tracker \in Settled
        /\ \E k \in CallsOf(lockCalls, s) : lockCalls[k].tracker = "rejected"
        /\ sessionLocks[s] = 0
        /\ \E other \in Sessions : sessionLocks[other] # 0
====
